---- MODULE Spec2Model ----
(***************************************************************************)
(* A model of the osusume anime recommender: the catalog search tool       *)
(* (recommender.py), the plain search client it calls for seed titles      *)
(* (anime_searcher.py), the seed classifier (analyzer.py), the parameter   *)
(* schemas and the deterministic request mappers.                          *)
(*                                                                         *)
(* Python values are modelled as follows.  A text the code takes apart     *)
(* (strip, split, lower, title, substring search) is a sequence of         *)
(* one-character strings; a name the code only passes on or compares is a  *)
(* TLA+ string.  An Optional value is the empty tuple (None) or a          *)
(* one-element tuple (the value).  A dict is a function on its keys.       *)
(***************************************************************************)
EXTENDS Integers, Sequences, FiniteSets, TLC

VARIABLES pc, kwargs, variables, raws, genres_acc, tags_acc, calls, outcome, mapped,
          run, nag

vars == <<pc, kwargs, variables, raws, genres_acc, tags_acc, calls, outcome, mapped,
          run, nag>>

----------------------------------------------------------------------------
(* Python values *)

None == <<>>
Some(v) == <<v>>
IsNone(o) == Len(o) = 0
Val(o) == o[1]

Raise(exc, detail) == [kind |-> "raise", exc |-> exc, detail |-> detail, value |-> <<>>]
Return(v) == [kind |-> "return", exc |-> "", detail |-> "", value |-> v]

Range(s) == {s[i] : i \in 1..Len(s)}

IsSpace(c) == c = " "

RECURSIVE LStrip(_)
LStrip(s) == IF Len(s) > 0 /\ IsSpace(Head(s)) THEN LStrip(Tail(s)) ELSE s

RECURSIVE RStrip(_)
RStrip(s) ==
    IF Len(s) > 0 /\ IsSpace(s[Len(s)]) THEN RStrip(SubSeq(s, 1, Len(s) - 1)) ELSE s

\* str.strip()
Strip(s) == RStrip(LStrip(s))

\* str.split(sep) for a one-character separator
RECURSIVE Split(_, _)
Split(s, sep) ==
    IF \E i \in 1..Len(s) : s[i] = sep
    THEN LET i == CHOOSE k \in 1..Len(s) :
                      s[k] = sep /\ \A j \in 1..(k - 1) : s[j] # sep
         IN  <<SubSeq(s, 1, i - 1)>> \o Split(SubSeq(s, i + 1, Len(s)), sep)
    ELSE <<s>>

\* The text of a character sequence, as a string
RECURSIVE Join(_)
Join(s) == IF Len(s) = 0 THEN "" ELSE Head(s) \o Join(Tail(s))

UPPER ==
    <<"A", "B", "C", "D", "E", "F", "G", "H", "I", "J", "K", "L", "M",
      "N", "O", "P", "Q", "R", "S", "T", "U", "V", "W", "X", "Y", "Z">>
LOWER ==
    <<"a", "b", "c", "d", "e", "f", "g", "h", "i", "j", "k", "l", "m",
      "n", "o", "p", "q", "r", "s", "t", "u", "v", "w", "x", "y", "z">>
DIGITS == <<"0", "1", "2", "3", "4", "5", "6", "7", "8", "9">>

IsUpper(c) == \E i \in 1..Len(UPPER) : UPPER[i] = c
IsLower(c) == \E i \in 1..Len(LOWER) : LOWER[i] = c
IsCased(c) == IsUpper(c) \/ IsLower(c)
IsDigit(c) == \E i \in 1..Len(DIGITS) : DIGITS[i] = c
\* \w of a regular expression
IsWord(c) == IsCased(c) \/ IsDigit(c) \/ c = "_"

ToLower(c) == IF IsUpper(c) THEN LOWER[CHOOSE i \in 1..Len(UPPER) : UPPER[i] = c] ELSE c
ToUpper(c) == IF IsLower(c) THEN UPPER[CHOOSE i \in 1..Len(LOWER) : LOWER[i] = c] ELSE c
DigitValue(c) == (CHOOSE i \in 1..Len(DIGITS) : DIGITS[i] = c) - 1

\* str.lower()
Lower(s) == [i \in 1..Len(s) |-> ToLower(s[i])]

\* str.title(): a cased character is upper-cased after an uncased one (or at
\* the start) and lower-cased after a cased one
Title(s) ==
    [i \in 1..Len(s) |->
        IF i > 1 /\ IsCased(s[i - 1]) THEN ToLower(s[i]) ELSE ToUpper(s[i])]

\* str.capitalize(): the first character upper-cased, the rest lower-cased
Capitalize(s) == [i \in 1..Len(s) |-> IF i = 1 THEN ToUpper(s[i]) ELSE ToLower(s[i])]

\* needle in hay
StartsAt(hay, needle, i) ==
    /\ i + Len(needle) - 1 <= Len(hay)
    /\ \A j \in 1..Len(needle) : hay[i + j - 1] = needle[j]
Contains(hay, needle) == \E i \in 1..(Len(hay) + 1) : StartsAt(hay, needle, i)

\* str.split(sep) for a separator of any length >= 1
RECURSIVE SplitOn(_, _)
SplitOn(s, sep) ==
    IF Contains(s, sep)
    THEN LET i == CHOOSE k \in 1..Len(s) :
                      StartsAt(s, sep, k) /\ \A j \in 1..(k - 1) : ~StartsAt(s, sep, j)
         IN  <<SubSeq(s, 1, i - 1)>> \o SplitOn(SubSeq(s, i + Len(sep), Len(s)), sep)
    ELSE <<s>>

\* The names of the model in code-point order, the order sorted() puts them in
NameOrder ==
    <<"Action", "Comedy", "Drama", "Isekai", "T1", "T2", "Zeta">>

Rank(n) == CHOOSE i \in 1..Len(NameOrder) : NameOrder[i] = n

\* sorted(S) of a set of names
RECURSIVE Sorted(_)
Sorted(S) ==
    IF S = {} THEN <<>>
    ELSE LET m == CHOOSE x \in S : \A y \in S : Rank(x) <= Rank(y)
         IN  <<m>> \o Sorted(S \ {m})

\* A dict with key k set to v
Put(d, k, v) == (k :> v) @@ d

----------------------------------------------------------------------------
(* The catalog: records, and the responses an HTTP POST can meet *)

RecA ==
    [id |-> 1, title |-> [english |-> Some("Attack"), romaji |-> Some("Shingeki")],
     genres |-> <<"Action", "Drama">>,
     tags |-> <<[name |-> "T1"], [name |-> "T2"]>>]

RecB ==
    [id |-> 2, title |-> [english |-> None, romaji |-> Some("Gintama")],
     genres |-> <<"Comedy">>,
     tags |-> <<>>]

RecC ==
    [id |-> 3, title |-> [english |-> Some(""), romaji |-> Some("Mushishi")],
     genres |-> <<>>,
     tags |-> <<[name |-> "T1"]>>]

\* The media lists a catalog page can hold
MediaLists == {<<>>, <<RecA>>, <<RecB, RecA>>, <<RecC>>}

\* An HTTP exchange: the transport fails, or a status and a JSON body come back
\* (a GraphQL body holds errors, data, or both)
NetFail == [net |-> "fail", status |-> 0, errors |-> FALSE, data |-> None]
Http(status, errors, data) ==
    [net |-> "ok", status |-> status, errors |-> errors, data |-> data]

Responses ==
    {NetFail, Http(500, FALSE, None), Http(200, TRUE, None)}
        \cup {Http(200, TRUE, Some(m)) : m \in {<<>>, <<RecA>>}}
        \cup {Http(200, FALSE, Some(m)) : m \in MediaLists}

\* Which of the three failure classes a response falls in
FailureClass(resp) ==
    IF resp.net = "fail" THEN "transport"
    ELSE IF resp.status # 200 THEN "status"
    ELSE IF resp.errors THEN "errors"
    ELSE "none"

\* What the classifier's language model can answer: the call fails, the text
\* does not evaluate, or it evaluates to a list
LlmOutputs ==
    {[kind |-> "error", value |-> <<>>], [kind |-> "unparsable", value |-> <<>>]}
        \cup {[kind |-> "list", value |-> v] : v \in {<<>>, <<"T1">>, <<"Zeta">>}}

----------------------------------------------------------------------------
(* recommender.py: the tool's own HTTP helper *)

REQUEST_TIMEOUT_S == 10

\* _fetch_from_anilist: one POST with a timeout; every failure class is raised
\* as a RuntimeError that carries the detail
Tool_fetch_from_anilist(resp) ==
    IF resp.net = "fail" THEN Raise("RuntimeError", "network")
    ELSE IF resp.status # 200 THEN Raise("RuntimeError", "http")
    ELSE IF resp.errors THEN Raise("RuntimeError", "errors")
    ELSE Return(resp.data)

----------------------------------------------------------------------------
(* anime_searcher.py: the plain client used for the seed lookups *)

\* fetch_from_anilist: one POST without a timeout; only the status is checked
fetch_from_anilist(resp) ==
    IF resp.net = "fail" THEN Raise("RequestException", "network")
    ELSE IF resp.status # 200 THEN Raise("Exception", "http")
    ELSE Return(resp.data)

TruthySeq(o) == ~IsNone(o) /\ Len(Val(o)) > 0
TruthyInt(o) == ~IsNone(o) /\ Val(o) # 0

\* The variables search_anime builds from its arguments.  sort is a record
\* [list, value]: a list of tokens, or one token held in a one-element value.
search_anime_variables(search_term, season, year, genre, genres, tags, sort, page, per_page) ==
    LET v0 == <<>>
        v1 == IF TruthySeq(search_term) THEN Put(v0, "search", search_term) ELSE v0
        v2 == IF TruthySeq(season) THEN Put(v1, "season", season) ELSE v1
        v3 == IF TruthyInt(year) THEN Put(v2, "seasonYear", year) ELSE v2
        v4 == IF TruthySeq(genre) THEN Put(v3, "genre", genre) ELSE v3
        v5 == IF TruthySeq(genres) THEN Put(v4, "genres", genres) ELSE v4
        v6 == IF TruthySeq(tags) THEN Put(v5, "tags", tags) ELSE v5
        v7 == IF ~IsNone(sort)
                 /\ (IF Val(sort).list THEN Len(Val(sort).value) > 0
                     ELSE Val(sort).value # <<"">>)
              THEN Put(v6, "sort", Some(Val(sort).value))
              ELSE v6
        v8 == Put(v7, "page", page)
    IN  Put(v8, "perPage", per_page)

DefaultSort == Some([list |-> FALSE, value |-> <<"POPULARITY_DESC">>])

\* search_anime(title): the variables of a lookup by title alone
seed_variables(title) ==
    search_anime_variables(Some(title), None, None, None, None, None,
                           DefaultSort, Some(1), Some(20))

\* search_anime: response['data']['Page']['media'] of what the fetch returned
search_anime(resp) ==
    LET response == fetch_from_anilist(resp)
    IN  IF response.kind = "raise" THEN response
        ELSE IF IsNone(response.value) THEN Raise("TypeError", "data is null")
        ELSE Return(Val(response.value))

----------------------------------------------------------------------------
(* analyzer.py: the seed classifier *)

\* a if a is not None else b: an empty title is kept
Or_is_not_none(a, b) == IF ~IsNone(a) THEN a ELSE b

\* a or b, for two optional titles
Or(a, b) == IF ~IsNone(a) /\ Val(a) # "" THEN a ELSE b

\* get_relevant_tags_and_genres: the first genre, and the tags the language
\* model's answer evaluates to (the first tag when it does not evaluate)
get_relevant_tags_and_genres(title, genres, tags, llm) ==
    IF IsNone(title) THEN Raise("TypeError", "title is null")
    ELSE IF llm.kind = "error" THEN Raise("APIError", "language model")
    ELSE IF Len(genres) = 0 THEN Raise("IndexError", "genres[0]")
    ELSE LET relevant_genres == <<genres[1]>>
         IN  IF llm.kind = "list"
             THEN Return([g |-> relevant_genres, t |-> llm.value])
             ELSE IF Len(tags) = 0 THEN Raise("IndexError", "tags[0]")
             ELSE Return([g |-> relevant_genres, t |-> <<tags[1]>>])

----------------------------------------------------------------------------
(* recommender.py: the input schema of the search tool *)

Fields ==
    {"search_term", "season", "year", "genre", "genres", "tags", "sort", "page",
     "per_page", "like_animes"}

WINTER == <<"W", "I", "N", "T", "E", "R">>
SPRING == <<"S", "P", "R", "I", "N", "G">>
SUMMER == <<"S", "U", "M", "M", "E", "R">>
FALL == <<"F", "A", "L", "L">>

Action_ == <<"A", "c", "t", "i", "o", "n">>

\* _blank_to_none: a string that strips to nothing becomes None
blank_to_none(o) == IF ~IsNone(o) /\ Len(Strip(Val(o))) = 0 THEN None ELSE o

\* SearchAnimeToolInput(**kwargs): kw.given are the keys passed, kw.v their
\* values.  The result holds ok (the object validated) and the fields after
\* the defaults and the before-validator were applied.
SearchAnimeToolInput(kw) ==
    LET arg(f) == IF f \in kw.given THEN kw.v[f] ELSE None
        search_term == blank_to_none(arg("search_term"))
        season == blank_to_none(arg("season"))
        genre == blank_to_none(arg("genre"))
        like_animes == blank_to_none(arg("like_animes"))
        year == arg("year")
        sort == IF "sort" \in kw.given THEN kw.v.sort ELSE Some(<<"POPULARITY_DESC">>)
        page == IF "page" \in kw.given THEN kw.v.page ELSE Some(1)
        per_page == IF "per_page" \in kw.given THEN kw.v.per_page ELSE Some(20)
    IN  [ok |-> /\ (IsNone(season) \/ Val(season) \in {WINTER, SPRING, SUMMER, FALL})
                /\ (IsNone(year) \/ (Val(year) >= 1960 /\ Val(year) <= 2100))
                /\ ~IsNone(page) /\ Val(page) >= 1
                /\ ~IsNone(per_page) /\ Val(per_page) >= 1 /\ Val(per_page) <= 50,
         search_term |-> search_term, season |-> season, year |-> year,
         genre |-> genre, genres |-> arg("genres"), tags |-> arg("tags"),
         sort |-> sort, page |-> page, per_page |-> per_page,
         like_animes |-> like_animes]

----------------------------------------------------------------------------
(* recommender.py: SearchAnimeTool *)

\* _run, lines 142-159: the variables built from the validated parameters
run_variables(params) ==
    LET v0 == ("page" :> params.page) @@ ("perPage" :> params.per_page)
                  @@ ("sort" :> params.sort)
        v1 == IF TruthySeq(params.search_term)
              THEN Put(v0, "search", params.search_term) ELSE v0
        v2 == IF TruthySeq(params.season) THEN Put(v1, "season", params.season) ELSE v1
        v3 == IF TruthyInt(params.year) THEN Put(v2, "seasonYear", params.year) ELSE v2
        v4 == IF TruthySeq(params.genre) THEN Put(v3, "genre", params.genre) ELSE v3
        v5 == IF TruthySeq(params.genres) THEN Put(v4, "genres", params.genres) ELSE v4
    IN  IF TruthySeq(params.tags) THEN Put(v5, "tags", params.tags) ELSE v5

\* Page_media with a filter on the records: those without an English title
\* are dropped
Page_media_titled(data) ==
    IF IsNone(data) THEN Raise("TypeError", "data is null")
    ELSE Return(SelectSeq(Val(data), LAMBDA m : ~IsNone(m.title.english)))

\* _run, line 174: data["data"]["Page"]["media"] of the payload
Page_media(data) ==
    IF IsNone(data) THEN Raise("TypeError", "data is null") ELSE Return(Val(data))

\* variables.get(key, [])
GetList(vs, key) == IF key \in DOMAIN vs THEN Val(vs[key]) ELSE <<>>

\* merge_taste without the two emptiness tests: the union is always written
merge_taste_unguarded(vs, taste_genres, taste_tags) ==
    Put(Put(vs, "genres", Some(Sorted(Range(GetList(vs, "genres")) \cup taste_genres))),
        "tags", Some(Sorted(Range(GetList(vs, "tags")) \cup taste_tags)))

\* _run, lines 164-171: the taste profile merged into the variables
merge_taste(vs, taste_genres, taste_tags) ==
    LET v1 == IF taste_genres # {}
              THEN Put(vs, "genres",
                       Some(Sorted(Range(GetList(vs, "genres")) \cup taste_genres)))
              ELSE vs
    IN  IF taste_tags # {}
        THEN Put(v1, "tags", Some(Sorted(Range(GetList(v1, "tags")) \cup taste_tags)))
        ELSE v1

\* One entry of the log of HTTP requests a call issued
Call(client, timeout, vs, resp, result, hit, added, title) ==
    [client |-> client, timeout |-> timeout, variables |-> vs,
     failure |-> FailureClass(resp), kind |-> result.kind, exc |-> result.exc,
     detail |-> result.detail, hit |-> hit, added |-> added, title |-> title,
     media |-> resp.data, value |-> result.value]

\* taste_turn without the test that skips a blank segment
taste_turn_blank_lookup(raw, resp, llm) ==
    LET hits == search_anime(resp)
    IN  [result |-> IF hits.kind = "raise" THEN hits ELSE Return([g |-> <<>>, t |-> <<>>]),
         log |-> <<Call("search_anime", None, seed_variables(Strip(raw)), resp, hits,
                        None, None, None)>>]

\* taste_turn taking a lookup that raised for a lookup without hits
taste_turn_swallow(raw, resp, llm) ==
    LET title == Strip(raw)
        hits == search_anime(resp)
    IN  IF Len(title) = 0
        THEN [result |-> Return([g |-> <<>>, t |-> <<>>]), log |-> <<>>]
        ELSE [result |-> Return([g |-> <<>>, t |-> <<>>]),
              log |-> <<Call("search_anime", None, seed_variables(title), resp, hits,
                             None, None, None)>>]

\* _build_taste_profile, one turn of the loop over like_animes.split(","):
\* what the turn does with the segment raw when the lookup meets resp and the
\* classifier's model answers llm
taste_turn(raw, resp, llm) ==
    LET title == Strip(raw)
        hits == search_anime(resp)
        first == hits.value[1]
        shown == Or(first.title.english, first.title.romaji)
        r == get_relevant_tags_and_genres(
                 shown,
                 first.genres,
                 [i \in 1..Len(first.tags) |-> first.tags[i].name],
                 llm)
        lookup(hit, added) ==
            <<Call("search_anime", None, seed_variables(title), resp, hits, hit, added,
                   IF IsNone(hit) THEN None ELSE Some(shown))>>
    IN  IF Len(title) = 0
        THEN [result |-> Return([g |-> <<>>, t |-> <<>>]), log |-> <<>>]
        ELSE IF hits.kind = "raise"
        THEN [result |-> hits, log |-> lookup(None, None)]
        ELSE IF Len(hits.value) = 0
        THEN [result |-> Return([g |-> <<>>, t |-> <<>>]), log |-> lookup(None, None)]
        ELSE IF r.kind = "raise"
        THEN [result |-> r, log |-> lookup(Some(first), None)]
        ELSE [result |-> r, log |-> lookup(Some(first), Some(r.value))]

----------------------------------------------------------------------------
(* request_parser.py: the extractor's schema and the genre vocabulary *)

OFFICIAL_GENRES ==
    <<"Action", "Adventure", "Comedy", "Drama", "Ecchi",
      "Fantasy", "Hentai", "Horror", "Mahou Shoujo", "Mecha",
      "Music", "Mystery", "Psychological", "Romance", "Sci-Fi",
      "Slice of Life", "Sports", "Supernatural", "Thriller">>

\* The fields AnimeSearchParams declares; extra keys are forbidden
AnimeSearchParamsFields ==
    {"search_term", "season", "year", "genres", "tags", "sort", "page", "per_page",
     "like_animes"}

\* AnimeSearchParams validation of an object obj (obj.given its keys, obj.v
\* their values): every field is optional, season is one of four literals,
\* no other key is allowed; no field has a range
AnimeSearchParams(obj) ==
    /\ obj.given \subseteq AnimeSearchParamsFields
    /\ ("season" \in obj.given /\ ~IsNone(obj.v.season))
           => obj.v.season \in {Some(WINTER), Some(SPRING), Some(SUMMER), Some(FALL)}

----------------------------------------------------------------------------
(* old/crew.py: the deterministic request mapper *)

search_terms ==
    <<<<"l", "i", "k", "e">>,
      <<"s", "i", "m", "i", "l", "a", "r", " ", "t", "o">>,
      <<"s", "u", "c", "h", " ", "a", "s">>>>

genre_list ==
    <<<<"a", "c", "t", "i", "o", "n">>,
      <<"a", "d", "v", "e", "n", "t", "u", "r", "e">>,
      <<"c", "o", "m", "e", "d", "y">>,
      <<"d", "r", "a", "m", "a">>,
      <<"f", "a", "n", "t", "a", "s", "y">>,
      <<"h", "o", "r", "r", "o", "r">>,
      <<"m", "y", "s", "t", "e", "r", "y">>,
      <<"r", "o", "m", "a", "n", "c", "e">>,
      <<"s", "c", "i", "-", "f", "i">>,
      <<"s", "l", "i", "c", "e", " ", "o", "f", " ", "l", "i", "f", "e">>,
      <<"s", "p", "o", "r", "t", "s">>,
      <<"t", "h", "r", "i", "l", "l", "e", "r">>>>

tag_list ==
    <<<<"t", "i", "m", "e", " ", "t", "r", "a", "v", "e", "l">>,
      <<"s", "c", "h", "o", "o", "l">>,
      <<"m", "a", "g", "i", "c">>,
      <<"m", "e", "c", "h", "a">>,
      <<"p", "s", "y", "c", "h", "o", "l", "o", "g", "i", "c", "a", "l">>>>

\* The seasons dict, in its order: the name looked for and the value emitted
seasons ==
    <<[name |-> <<"w", "i", "n", "t", "e", "r">>, value |-> "WINTER"],
      [name |-> <<"s", "p", "r", "i", "n", "g">>, value |-> "SPRING"],
      [name |-> <<"s", "u", "m", "m", "e", "r">>, value |-> "SUMMER"],
      [name |-> <<"f", "a", "l", "l">>, value |-> "FALL"]>>

\* re.search(r'\b(19[0-9]{2}|20[0-2][0-9])\b', s) matches at position i
YearAt(s, i) ==
    /\ i + 3 <= Len(s)
    /\ \/ s[i] = "1" /\ s[i + 1] = "9" /\ IsDigit(s[i + 2]) /\ IsDigit(s[i + 3])
       \/ s[i] = "2" /\ s[i + 1] = "0" /\ s[i + 2] \in {"0", "1", "2"}
              /\ IsDigit(s[i + 3])
    /\ (i = 1 \/ ~IsWord(s[i - 1]))
    /\ (i + 3 = Len(s) \/ ~IsWord(s[i + 4]))

\* int(year_match.group(0)) for the match at i
YearValue(s, i) ==
    1000 * DigitValue(s[i]) + 100 * DigitValue(s[i + 1]) + 10 * DigitValue(s[i + 2])
        + DigitValue(s[i + 3])

\* The elements of the list l that occur in text, in the list's order
Found(l, text) == SelectSeq(l, LAMBDA w : Contains(text, w))

\* AnimeRequestTool._run keeping the key genre for the first of several
\* detected genres
AnimeRequestTool_run_genre_kept(user_request) ==
    LET lower == Lower(user_request)
        found == Found(genre_list, lower)
        genres == [i \in 1..Len(found) |-> Join(Title(found[i]))]
        p1 == IF Len(genres) >= 1 THEN "genre" :> genres[1] ELSE <<>>
        p2 == IF Len(genres) > 1 THEN Put(p1, "genres", genres) ELSE p1
    IN  Put(Put(Put(p2, "sort", "POPULARITY_DESC"), "page", 1), "per_page", 10)

\* AnimeRequestTool._run(user_request): the parameter dict
AnimeRequestTool_run(user_request) ==
    LET lower == Lower(user_request)
        terms == Found(search_terms, lower)
        p1 == IF Len(terms) > 0 /\ Len(SplitOn(lower, terms[1])) > 1
              THEN LET rest == SplitOn(lower, terms[1])[2]
                       cut == SplitOn(SplitOn(SplitOn(rest, <<".">>)[1], <<"!">>)[1],
                                      <<"?">>)[1]
                   IN  "search_term" :> Strip(cut)
              ELSE <<>>
        found == Found(genre_list, lower)
        genres == [i \in 1..Len(found) |-> Join(Title(found[i]))]
        p2 == IF Len(genres) = 1 THEN Put(p1, "genre", genres[1])
              ELSE IF Len(genres) > 1 THEN Put(p1, "genres", genres)
              ELSE p1
        named == SelectSeq(seasons, LAMBDA e : Contains(lower, e.name))
        p3 == IF Len(named) > 0 THEN Put(p2, "season", named[1].value) ELSE p2
        at == {i \in 1..Len(user_request) : YearAt(user_request, i)}
        p4 == IF at # {}
              THEN Put(p3, "year",
                       YearValue(user_request, CHOOSE i \in at : \A j \in at : i <= j))
              ELSE p3
        tagged == Found(tag_list, lower)
        tags == [i \in 1..Len(tagged) |-> Join(Title(tagged[i]))]
        p5 == IF Len(tags) > 0 THEN Put(p4, "tags", tags) ELSE p4
        p6 == IF "sort" \in DOMAIN p5 THEN p5 ELSE Put(p5, "sort", "POPULARITY_DESC")
        p7 == IF "page" \in DOMAIN p6 THEN p6 ELSE Put(p6, "page", 1)
    IN  IF "per_page" \in DOMAIN p7 THEN p7 ELSE Put(p7, "per_page", 10)

----------------------------------------------------------------------------
(* nag.py: interpret_user_request *)

common_genres ==
    <<<<"a", "c", "t", "i", "o", "n">>,
      <<"a", "d", "v", "e", "n", "t", "u", "r", "e">>,
      <<"c", "o", "m", "e", "d", "y">>,
      <<"d", "r", "a", "m", "a">>,
      <<"f", "a", "n", "t", "a", "s", "y">>,
      <<"h", "o", "r", "r", "o", "r">>,
      <<"i", "s", "e", "k", "a", "i">>,
      <<"r", "o", "m", "a", "n", "c", "e">>,
      <<"s", "c", "i", "-", "f", "i">>,
      <<"s", "l", "i", "c", "e", " ", "o", "f", " ", "l", "i", "f", "e">>>>

\* The basic fallback parser, lines 179-197
fallback_parser(user_request) ==
    LET lower == Lower(user_request)
        like == <<"l", "i", "k", "e">>
        found == Found(common_genres, lower)
    IN  IF Contains(lower, like) /\ Len(SplitOn(lower, like)) > 1
        THEN ("type" :> "similar") @@ ("title" :> Strip(SplitOn(lower, like)[2]))
        ELSE IF Len(found) > 0
        THEN ("type" :> "genre") @@ ("genre" :> Join(Capitalize(found[1])))
        ELSE ("type" :> "genre") @@ ("genre" :> "Action")

\* What the interpreting model can answer: the call fails, the text does not
\* evaluate, or it evaluates to a criteria dict
Interpretations ==
    {[kind |-> "error", value |-> <<>>], [kind |-> "unparsable", value |-> <<>>],
     [kind |-> "value",
      value |-> ("type" :> "similar") @@ ("title" :> <<"n", "a", "r", "u", "t", "o">>)],
     [kind |-> "value", value |-> ("type" :> "genre") @@ ("genre" :> "Isekai")],
     [kind |-> "value", value |-> ("type" :> "mood") @@ ("genre" :> "Drama")]}

\* interpret_user_request: the evaluated answer, or the fallback parser's
\* result on any exception
interpret_user_request(user_request, llm) ==
    IF llm.kind = "value" THEN llm.value ELSE fallback_parser(user_request)

----------------------------------------------------------------------------
(* The requests the model makes *)

\* A request text holds at most this many phrases of the lexicon
MaxWords == 2

Lexicon ==
    <<<<"a", "c", "t", "i", "o", "n">>,
      <<"d", "r", "a", "m", "a">>,
      <<"s", "l", "i", "c", "e", " ", "o", "f", " ", "l", "i", "f", "e">>,
      <<"s", "c", "i", "-", "f", "i">>,
      <<"i", "s", "e", "k", "a", "i">>,
      <<"f", "a", "l", "l">>,
      <<"1", "9", "5", "9">>,
      <<"x", "2", "0", "2", "0">>,
      <<"2", "0", "2", "9">>,
      <<"l", "i", "k", "e">>,
      <<"n", "a", "r", "u", "t", "o", ".">>,
      <<"s", "c", "h", "o", "o", "l">>>>

RECURSIVE RequestsUpTo(_)
RequestsUpTo(n) ==
    IF n = 0 THEN {<<>>}
    ELSE LET R == RequestsUpTo(n - 1)
         IN  R \cup {IF Len(r) = 0 THEN w ELSE r \o <<" ">> \o w :
                        r \in R, w \in Range(Lexicon)}

Requests == RequestsUpTo(MaxWords)

\* The values tried for each key of an extractor output
ExtractOptions(f) ==
    CASE f = "search_term" -> {Some(<<"a">>)}
      [] f = "season" -> {None, Some(FALL), Some(<<"f", "a", "l", "l">>)}
      [] f = "year" -> {None, Some(1959), Some(2020), Some(2101)}
      [] f = "genre" -> {Some(Action_)}
      [] f = "genres" -> {Some(<<"Fantasy">>), Some(<<"Isekai", "Comedy">>)}
      [] f = "tags" -> {Some(<<"Dark">>)}
      [] f = "sort" -> {None, Some("SCORE_DESC")}
      [] f = "page" -> {Some(0), Some(1)}
      [] f = "per_page" -> {Some(0), Some(20), Some(51)}
      [] f = "like_animes" -> {Some(<<"a">>)}

----------------------------------------------------------------------------
(* The calls the model makes: the keyword arguments a caller can pass *)

\* At most this many keyword arguments are passed in one call
MaxKwargs == 2

\* The values tried for each keyword argument
Options(f) ==
    CASE f = "search_term" -> {Some(<<" ">>), Some(<<"a">>)}
      [] f = "season" -> {Some(WINTER), Some(<<"w", "i", "n", "t", "e", "r">>)}
      [] f = "year" -> {Some(1959), Some(1960), Some(2100), Some(2101)}
      [] f = "genre" -> {Some(Action_), Some(<<" ">>)}
      [] f = "genres" -> {Some(<<>>), Some(<<"Action", "Action">>),
                          Some(<<"Drama", "Action">>), Some(<<"Isekai">>)}
      [] f = "tags" -> {Some(<<"T1", "T1">>), Some(<<"Zeta", "T1">>)}
      [] f = "sort" -> {None, Some(<<"SCORE_DESC">>), Some(<<"rating">>)}
      [] f = "page" -> {None, Some(0), Some(2)}
      [] f = "per_page" -> {None, Some(0), Some(50), Some(51)}
      [] f = "like_animes" -> {Some(<<>>), Some(<<" ">>), Some(<<",", " ">>),
                               Some(<<"a">>), Some(<<" ", "a", ",">>),
                               Some(<<"a", ",", " ", ",", "a", "a">>)}

NoArgs ==
    [given |-> {},
     v |-> [search_term |-> None, season |-> None, year |-> None, genre |-> None,
            genres |-> None, tags |-> None, sort |-> None, page |-> None,
            per_page |-> None, like_animes |-> None]]

\* The objects of K, each with one more key, its value drawn from opts[key]
OneMore(K, opts) ==
    UNION {UNION {{[given |-> kw.given \cup {f}, v |-> [kw.v EXCEPT ![f] = x]] :
                      x \in opts[f]} :
                  f \in Fields \ kw.given} :
           kw \in K}

RECURSIVE KwargsUpTo(_)
KwargsUpTo(n) ==
    IF n = 0 THEN {NoArgs}
    ELSE LET K == KwargsUpTo(n - 1) IN K \cup OneMore(K, [f \in Fields |-> Options(f)])

RECURSIVE ExtractsUpTo(_)
ExtractsUpTo(n) ==
    IF n = 0 THEN {NoArgs}
    ELSE LET K == ExtractsUpTo(n - 1) IN K \cup OneMore(K, [f \in Fields |-> ExtractOptions(f)])

\* The JSON objects the extractor's model can emit
ExtractorOutputs == ExtractsUpTo(MaxKwargs)

KwargsSet == KwargsUpTo(MaxKwargs)

----------------------------------------------------------------------------
(* old/anilist_agent.py: the earlier search tool, which normalises sort and
   season before it sends them *)

VALID_SORT_VALUES ==
    <<"POPULARITY_DESC", "POPULARITY", "SCORE_DESC", "SCORE",
      "TRENDING_DESC", "TRENDING", "UPDATED_AT_DESC", "UPDATED_AT",
      "START_DATE_DESC", "START_DATE", "END_DATE_DESC", "END_DATE",
      "FAVORITES_DESC", "FAVORITES", "ID_DESC", "ID",
      "TITLE_ROMAJI_DESC", "TITLE_ROMAJI", "TITLE_ENGLISH_DESC", "TITLE_ENGLISH",
      "TITLE_NATIVE_DESC", "TITLE_NATIVE", "EPISODES_DESC", "EPISODES">>

sort_mapping ==
    ("popularity" :> "POPULARITY_DESC") @@
    ("popular" :> "POPULARITY_DESC") @@
    ("rating" :> "SCORE_DESC") @@
    ("score" :> "SCORE_DESC") @@
    ("highly rated" :> "SCORE_DESC") @@
    ("high rating" :> "SCORE_DESC") @@
    ("trending" :> "TRENDING_DESC") @@
    ("newest" :> "START_DATE_DESC") @@
    ("latest" :> "START_DATE_DESC") @@
    ("recent" :> "UPDATED_AT_DESC") @@
    ("updated" :> "UPDATED_AT_DESC") @@
    ("favorites" :> "FAVORITES_DESC")

\* str.upper()
Upper(s) == [i \in 1..Len(s) |-> ToUpper(s[i])]

\* _normalize_sort of a string: the valid value it equals when upper-cased,
\* else its entry in sort_mapping when lower-cased, else POPULARITY_DESC
normalize_sort(sort_value) ==
    IF Len(sort_value) = 0 THEN "POPULARITY_DESC"
    ELSE IF Join(Upper(sort_value)) \in Range(VALID_SORT_VALUES)
    THEN Join(Upper(sort_value))
    ELSE IF Join(Lower(sort_value)) \in DOMAIN sort_mapping
    THEN sort_mapping[Join(Lower(sort_value))]
    ELSE "POPULARITY_DESC"

\* The variables AnimeSearchTool._run builds, lines 160-185.  sort is None or
\* a record [list, value]: a list of strings, or one string in value[1].
AnimeSearchTool_variables(search_term, season, year, genre, genres, tags, sort, page, per_page) ==
    LET v0 == <<>>
        v1 == IF TruthySeq(search_term) THEN Put(v0, "search", search_term) ELSE v0
        v2 == IF TruthySeq(season) THEN Put(v1, "season", Some(Upper(Val(season)))) ELSE v1
        v3 == IF TruthyInt(year) THEN Put(v2, "seasonYear", year) ELSE v2
        v4 == IF TruthySeq(genre) THEN Put(v3, "genre", genre) ELSE v3
        v5 == IF TruthySeq(genres) THEN Put(v4, "genres", genres) ELSE v4
        v6 == IF TruthySeq(tags) THEN Put(v5, "tags", tags) ELSE v5
        toks == Val(sort).value
        v7 == IF ~IsNone(sort) /\ Len(IF Val(sort).list THEN toks ELSE toks[1]) > 0
              THEN Put(v6, "sort", Some([i \in 1..Len(toks) |-> normalize_sort(toks[i])]))
              ELSE v6
        v8 == Put(v7, "page", page)
    IN  Put(v8, "perPage", per_page)

\* AnimeSearchTool.fetch_from_anilist and the return of _run, lines 61-68, 187-188
AnimeSearchTool_fetch(resp) ==
    IF resp.net = "fail" THEN Raise("RequestException", "network")
    ELSE IF resp.status # 200 THEN Raise("Exception", "http")
    ELSE IF IsNone(resp.data) THEN Raise("TypeError", "data is null")
    ELSE Return(Val(resp.data))

\* The season and sort arguments AnimeSearchTool._run is called with
OldSeasons ==
    {None, Some(WINTER), Some(<<"w", "i", "n", "t", "e", "r">>),
     Some(<<"F", "a", "l", "l">>), Some(<<"a", "u", "t", "u", "m", "n">>)}

SortTexts ==
    {<<>>, <<"S", "C", "O", "R", "E">>, <<"s", "c", "o", "r", "e", "_", "d", "e", "s", "c">>,
     <<"R", "a", "t", "i", "n", "g">>, <<"n", "e", "w", "e", "s", "t">>,
     <<" ", "n", "e", "w", "e", "s", "t">>, <<"b", "e", "s", "t">>}

OldSorts ==
    {None, Some([list |-> TRUE, value |-> <<>>])}
        \cup {Some([list |-> FALSE, value |-> <<t>>]) : t \in SortTexts}
        \cup {Some([list |-> TRUE, value |-> <<t, u>>]) :
                  t \in SortTexts, u \in {<<"b", "e", "s", "t">>, <<"I", "d">>}}

----------------------------------------------------------------------------
(* service.py: the crew's final output parsed into recommendation items *)

\* JSON values, each [t, v]: a list of values, a dict as a list of key/value
\* pairs, a string as its characters, a number, null
JList(v) == [t |-> "list", v |-> v]
JDict(pairs) == [t |-> "dict", v |-> pairs]
JStr(chars) == [t |-> "str", v |-> chars]
JNum == [t |-> "num", v |-> <<>>]
JNull == [t |-> "null", v |-> <<>>]
KV(k, x) == [k |-> k, x |-> x]

HasKey(d, k) == \E i \in 1..Len(d.v) : d.v[i].k = k
Get(d, k) == d.v[CHOOSE i \in 1..Len(d.v) : d.v[i].k = k].x

\* AnyHttpUrl: an http or https scheme and a host
IsHttpUrl(u) ==
    \/ StartsAt(u, <<"h", "t", "t", "p", ":", "/", "/">>, 1) /\ Len(u) > 7
    \/ StartsAt(u, <<"h", "t", "t", "p", "s", ":", "/", "/">>, 1) /\ Len(u) > 8

\* RecommendationItem.parse_obj(elem): a dict with the strings title and
\* description and the http url image_url, or a ValidationError
parse_obj(elem) ==
    IF /\ elem.t = "dict"
       /\ \A k \in {"title", "description", "image_url"} :
              HasKey(elem, k) /\ Get(elem, k).t = "str"
       /\ IsHttpUrl(Get(elem, "image_url").v)
    THEN Return([title |-> Get(elem, "title").v,
                 description |-> Get(elem, "description").v,
                 image_url |-> Get(elem, "image_url").v])
    ELSE Raise("ValidationError", "RecommendationItem")

\* json.loads of a raw output: raw.json is None for a text that is no JSON
json_loads(raw) ==
    IF IsNone(raw.json) THEN Raise("JSONDecodeError", "raw") ELSE Return(Val(raw.json))

\* for elem in data_list: the elements of a list, the keys of a dict, the
\* characters of a string; anything else is not iterable
Iterate(data_list) ==
    IF data_list.t = "list" THEN Return(data_list.v)
    ELSE IF data_list.t = "dict"
    THEN Return([i \in 1..Len(data_list.v) |-> JStr(<<data_list.v[i].k>>)])
    ELSE IF data_list.t = "str"
    THEN Return([i \in 1..Len(data_list.v) |-> JStr(<<data_list.v[i]>>)])
    ELSE Raise("TypeError", "not iterable")

\* Line 130: every element validated, or the first error raised
parse_all(data_list) ==
    LET elems == Iterate(data_list)
    IN  IF elems.kind = "raise" THEN elems
        ELSE IF \E i \in 1..Len(elems.value) : parse_obj(elems.value[i]).kind = "raise"
        THEN Raise("ValidationError", "RecommendationItem")
        ELSE Return([i \in 1..Len(elems.value) |-> parse_obj(elems.value[i]).value])

\* Lines 105-127: the list taken from json_dict, else from the raw output
data_list_of(crew_output) ==
    IF ~IsNone(crew_output.json_dict)
    THEN LET raw_json == Val(crew_output.json_dict)
         IN  IF raw_json.t = "dict"
             THEN IF Len(raw_json.v) = 1 /\ raw_json.v[1].x.t = "list"
                  THEN Return(raw_json.v[1].x)
                  ELSE Raise("RuntimeError", "Unexpected JSON structure")
             ELSE IF raw_json.t = "list" THEN Return(raw_json)
             ELSE Raise("RuntimeError", "Unexpected JSON structure")
    ELSE IF IsNone(crew_output.raw)
    THEN Raise("RuntimeError", "No output returned from Crew.")
    ELSE LET loaded == json_loads(Val(crew_output.raw))
         IN  IF loaded.kind = "raise"
             THEN Raise("RuntimeError", "Failed to parse recommendations JSON")
             ELSE loaded

\* get_recommendations reading the raw text before the other two channels
get_recommendations_raw_first(kickoff) ==
    IF kickoff.kind = "raise" THEN kickoff
    ELSE IF ~IsNone(kickoff.value.raw)
    THEN LET loaded == json_loads(Val(kickoff.value.raw))
         IN  IF loaded.kind = "raise"
             THEN Raise("RuntimeError", "Failed to parse recommendations JSON")
             ELSE parse_all(loaded.value)
    ELSE IF ~IsNone(kickoff.value.pydantic) THEN Return(Val(kickoff.value.pydantic))
    ELSE LET data_list == data_list_of(kickoff.value)
         IN  IF data_list.kind = "raise" THEN data_list ELSE parse_all(data_list.value)

\* get_recommendations taking an empty list for a missing one
get_recommendations_nonempty(kickoff) ==
    IF kickoff.kind = "raise" THEN kickoff
    ELSE LET recs == IF ~IsNone(kickoff.value.pydantic)
                     THEN Return(Val(kickoff.value.pydantic))
                     ELSE LET data_list == data_list_of(kickoff.value)
                          IN  IF data_list.kind = "raise" THEN data_list
                              ELSE parse_all(data_list.value)
         IN  IF recs.kind = "return" /\ Len(recs.value) = 0
             THEN Raise("RuntimeError", "No output returned from Crew.")
             ELSE recs

\* get_recommendations, lines 96-130, on what kickoff gave: an exception, or
\* a crew output with its three channels pydantic, json_dict and raw
get_recommendations(kickoff) ==
    IF kickoff.kind = "raise" THEN kickoff
    ELSE IF ~IsNone(kickoff.value.pydantic) THEN Return(Val(kickoff.value.pydantic))
    ELSE LET data_list == data_list_of(kickoff.value)
         IN  IF data_list.kind = "raise" THEN data_list ELSE parse_all(data_list.value)

----------------------------------------------------------------------------
(* ui/gradio_app.py: the request boundary of the web UI *)

\* not query: the test without the strip
is_blank_unstripped(query) == Len(query) = 0

\* not query.strip(), line 19
is_blank(query) == Len(Strip(query)) = 0

\* recommend_cb with the try/except around get_recommendations left out
recommend_cb_uncaught(query, kickoff) ==
    LET recs == get_recommendations(kickoff)
    IN  IF is_blank(query) THEN Return([msg |-> "Please enter a request first", cards |-> <<>>])
        ELSE IF recs.kind = "raise" THEN recs
        ELSE IF Len(recs.value) = 0
        THEN Return([msg |-> "No recommendations found", cards |-> <<>>])
        ELSE Return([msg |-> "cards", cards |-> recs.value])

\* recommend_cb(query): the message string it returns, by its kind, and the
\* cards it renders
recommend_cb(query, kickoff) ==
    LET recs == get_recommendations(kickoff)
    IN  IF is_blank(query) THEN Return([msg |-> "Please enter a request first", cards |-> <<>>])
        ELSE IF recs.kind = "raise"
        THEN Return([msg |-> "An error occurred", cards |-> <<>>])
        ELSE IF Len(recs.value) = 0
        THEN Return([msg |-> "No recommendations found", cards |-> <<>>])
        ELSE Return([msg |-> "cards", cards |-> recs.value])

----------------------------------------------------------------------------
(* The crews: the task lists the pipeline variants declare, and the outputs a
   run of the service crew can end with *)

CrewNames == {"service", "main", "anime_recommender", "new2"}

\* The tasks a crew is built with, in the declared order
CrewTasks(crew) ==
    CASE crew = "service" -> <<"map_request", "recommendation_task">>
      [] crew = "main" -> <<"map_request", "recommendation_task">>
      [] crew = "anime_recommender" ->
             <<"analyze_request_task", "find_candidates_task",
               "format_recommendations_task">>
      [] crew = "new2" -> <<"find_candidates_task">>

\* The tasks a task declares as its context
TaskContext(crew, task) ==
    IF crew \in {"anime_recommender", "new2"} /\ task = "find_candidates_task"
    THEN {"analyze_request_task"}
    ELSE IF crew \in {"anime_recommender", "new2"} /\ task = "format_recommendations_task"
    THEN {"find_candidates_task"}
    ELSE {}

\* The tasks that search the catalog
SearchTasks == {"recommendation_task", "find_candidates_task"}

\* At most this many candidate records come back from a crew's search
MaxFound == 6

ItemOf(title, url) ==
    JDict(<<KV("title", JStr(title)), KV("description", JStr(<<"d">>)),
            KV("image_url", JStr(url))>>)

UrlA == <<"h", "t", "t", "p", "s", ":", "/", "/", "i", "/", "a", ".", "p", "n", "g">>
ItemA == ItemOf(<<"A">>, UrlA)
ItemB == ItemOf(<<"B">>, UrlA)
ItemBadUrl == ItemOf(<<"C">>, <<"f", "t", "p", ":", "/", "/", "i", "/", "c", ".", "p", "n", "g">>)
ItemNoTitle == JDict(<<KV("description", JStr(<<"d">>)), KV("image_url", JStr(UrlA))>>)
SixItems == <<ItemA, ItemB, ItemA, ItemB, ItemA, ItemB>>

CrewOutput(pydantic, json_dict, raw) ==
    [pydantic |-> pydantic, json_dict |-> json_dict, raw |-> raw]
RawJson(j) == Some([json |-> Some(j)])
NotJson == Some([json |-> None])

\* The outputs a run of the service crew can end with
CrewOutputs ==
    <<CrewOutput(Some(<<>>), None, None),
      CrewOutput(Some(<<parse_obj(ItemA).value, parse_obj(ItemB).value>>), None, None),
      CrewOutput(None, Some(JList(<<>>)), None),
      CrewOutput(None, Some(JList(<<ItemA>>)), None),
      CrewOutput(None, Some(JList(<<ItemA, ItemBadUrl>>)), None),
      CrewOutput(None, Some(JDict(<<KV("root", JList(<<>>))>>)), None),
      CrewOutput(None, Some(JDict(<<KV("root", JList(<<ItemA, ItemB>>))>>)), None),
      CrewOutput(None, Some(JDict(<<>>)), None),
      CrewOutput(None, Some(JDict(<<KV("root", JList(<<ItemA>>)), KV("n", JNum)>>)), None),
      CrewOutput(None, Some(JDict(<<KV("title", JStr(<<"A">>))>>)), None),
      CrewOutput(None, Some(JNum), None),
      CrewOutput(None, None, None),
      CrewOutput(None, None, NotJson),
      CrewOutput(None, None, RawJson(JList(<<>>))),
      CrewOutput(None, None, RawJson(JList(<<ItemA>>))),
      CrewOutput(None, None, RawJson(JList(SixItems))),
      CrewOutput(None, None, RawJson(JList(<<ItemA, ItemNoTitle>>))),
      CrewOutput(None, None, RawJson(JList(<<ItemA, JNum>>))),
      CrewOutput(None, None, RawJson(JDict(<<>>))),
      CrewOutput(None, None, RawJson(JDict(<<KV("root", JList(<<ItemA>>))>>))),
      CrewOutput(None, None, RawJson(JStr(<<>>))),
      CrewOutput(None, None, RawJson(JNum)),
      CrewOutput(None, None, RawJson(JNull)),
      CrewOutput(Some(<<>>), Some(JList(<<>>)), RawJson(JList(<<>>))),
      CrewOutput(Some(<<parse_obj(ItemA).value>>), Some(JNum), NotJson),
      CrewOutput(Some(<<parse_obj(ItemA).value>>), Some(JList(<<ItemB>>)),
                 RawJson(JList(<<ItemB, ItemB>>))),
      CrewOutput(None, Some(JList(<<ItemA>>)), RawJson(JList(<<ItemB, ItemB>>))),
      CrewOutput(None, Some(JDict(<<KV("items", JList(<<ItemA>>))>>)), NotJson),
      CrewOutput(None, Some(JDict(<<KV("n", JNum)>>)), RawJson(JList(<<ItemA>>)))>>

\* The texts typed into the UI
Queries == {<<>>, <<" ">>, <<"a">>}

----------------------------------------------------------------------------
(* nag.py: the catalog functions of the command-line recommender *)

Min(a, b) == IF a <= b THEN a ELSE b

\* The characters of the titles and genre names of the model
Chars ==
    ("" :> <<>>) @@
    ("Attack" :> <<"A", "t", "t", "a", "c", "k">>) @@
    ("Shingeki" :> <<"S", "h", "i", "n", "g", "e", "k", "i">>) @@
    ("Gintama" :> <<"G", "i", "n", "t", "a", "m", "a">>) @@
    ("Mushishi" :> <<"M", "u", "s", "h", "i", "s", "h", "i">>) @@
    ("Action" :> <<"A", "c", "t", "i", "o", "n">>) @@
    ("Adventure" :> <<"A", "d", "v", "e", "n", "t", "u", "r", "e">>) @@
    ("Comedy" :> <<"C", "o", "m", "e", "d", "y">>) @@
    ("Drama" :> <<"D", "r", "a", "m", "a">>) @@
    ("Fantasy" :> <<"F", "a", "n", "t", "a", "s", "y">>) @@
    ("Horror" :> <<"H", "o", "r", "r", "o", "r">>) @@
    ("Isekai" :> <<"I", "s", "e", "k", "a", "i">>) @@
    ("Romance" :> <<"R", "o", "m", "a", "n", "c", "e">>) @@
    ("Sci-fi" :> <<"S", "c", "i", "-", "f", "i">>) @@
    ("Slice of life" :> <<"S", "l", "i", "c", "e", " ", "o", "f", " ", "l", "i", "f", "e">>)

\* (title or '').lower()
TitleLower(o) == Lower(Chars[IF IsNone(o) THEN "" ELSE Val(o)])

\* get_anime_details returning the Media of a response that reports errors
get_anime_details_despite_errors(title, resp) ==
    IF resp.net = "fail" \/ resp.status # 200 \/ IsNone(resp.data) THEN None
    ELSE Val(resp.data)

\* get_anime_details(title): data['data']['Media'] of the response, None on
\* a transport failure, a status other than 200, an errors body or any
\* exception.  The data of a detail response is Some(Media), Media an
\* Optional record.
get_anime_details(title, resp) ==
    IF FailureClass(resp) # "none" \/ IsNone(resp.data) THEN None ELSE Val(resp.data)

\* get_similar_anime comparing the titles with exclude_title as it was typed
get_similar_anime_case_sensitive(genres, tags, exclude_title, per_page, resp) ==
    IF FailureClass(resp) # "none" \/ IsNone(resp.data) THEN <<>>
    ELSE LET results == Val(resp.data)
             recommendations ==
                 SelectSeq(results,
                           LAMBDA anime :
                               ~(\/ Contains(TitleLower(anime.title.english), exclude_title)
                                 \/ Contains(TitleLower(anime.title.romaji), exclude_title)))
         IN  SubSeq(recommendations, 1, Min(per_page, Len(recommendations)))

\* get_similar_anime(genres, tags, exclude_title, per_page): the records of
\* the page whose titles do not contain exclude_title, at most per_page of
\* them; [] on any failure
get_similar_anime(genres, tags, exclude_title, per_page, resp) ==
    IF FailureClass(resp) # "none" \/ IsNone(resp.data) THEN <<>>
    ELSE LET results == Val(resp.data)
             exclude_title_lower == Lower(exclude_title)
             recommendations ==
                 SelectSeq(results,
                           LAMBDA anime :
                               ~(\/ Contains(TitleLower(anime.title.english),
                                             exclude_title_lower)
                                 \/ Contains(TitleLower(anime.title.romaji),
                                             exclude_title_lower)))
         IN  SubSeq(recommendations, 1, Min(per_page, Len(recommendations)))

\* get_anime_by_genre_or_tag(genre_or_tag, per_page): the records of the
\* page; [] on any failure
get_anime_by_genre_or_tag(genre_or_tag, per_page, resp) ==
    IF FailureClass(resp) # "none" \/ IsNone(resp.data) THEN <<>> ELSE Val(resp.data)

fallback_map ==
    ("isekai" :> <<"Fantasy", "Adventure", "Action">>) @@
    ("superhero" :> <<"Action", "Drama", "Sci-Fi">>) @@
    ("cyberpunk" :> <<"Sci-Fi", "Action", "Thriller">>) @@
    ("magical girl" :> <<"Fantasy", "Mahou Shoujo", "Action">>) @@
    ("post-apocalyptic" :> <<"Sci-Fi", "Drama", "Action">>)

\* retry_with_alternatives(original_genre): the model's answer stripped and
\* split on ", ", or the hardcoded alternatives when the call fails
retry_with_alternatives(original_genre, llm) ==
    IF llm.kind = "text"
    THEN LET parts == SplitOn(Strip(llm.value), <<",", " ">>)
         IN  [i \in 1..Len(parts) |-> Join(parts[i])]
    ELSE LET key == Join(Lower(Chars[original_genre]))
         IN  IF key \in DOMAIN fallback_map THEN fallback_map[key]
             ELSE <<"Action", "Adventure", "Fantasy">>

\* robust_genre_search going on to the next alternative whatever the query
\* returned
robust_genre_search_exhaustive(results, more) ==
    IF more THEN "next" ELSE IF results # <<>> THEN "return" ELSE "give up"

\* robust_genre_search giving up after the first alternative
robust_genre_search_one_alternative(results, more) ==
    IF results # <<>> THEN "return" ELSE "give up"

\* robust_genre_search, lines 303-305 and 310-320, after one query: a result
\* that is not empty is returned at once; after an empty one the next
\* alternative is tried, and [] is returned when none is left
robust_genre_search(results, more) ==
    IF results # <<>> THEN "return" ELSE IF more THEN "next" ELSE "give up"

\* One entry of the log of catalog queries nag.recommend issued
NagCall(fn, arg, resp, n) ==
    [fn |-> fn, arg |-> arg, failure |-> FailureClass(resp), n |-> n,
     media |-> resp.data,
     filters |-> CASE fn = "get_anime_details" -> {"search"}
                   [] fn = "get_similar_anime" -> {"genres", "tags"}
                   [] fn = "get_anime_by_genre_or_tag" -> {"genreOrTag"}]

\* The lines recommend prints for a list of records: the English title, or
\* the romaji one
Listed(recs) == [i \in 1..Len(recs) |-> Or(recs[i].title.english, recs[i].title.romaji)]

\* The requests typed at the prompt
NagRequests ==
    {<<"x">>, <<"d", "r", "a", "m", "a">>, <<"i", "s", "e", "k", "a", "i">>,
     <<"l", "i", "k", "e">>, <<"L", "i", "k", "e", " ", "A", "t", "t", "a", "c", "k">>}

\* What the interpreting model can answer, a value that is no criteria dict
\* included
NagInterpretations ==
    Interpretations \cup
        {[kind |-> "value", value |-> <<>>],
         [kind |-> "value",
          value |-> ("type" :> "similar") @@ ("title" :> <<"G", "i", "n">>)]}

\* What the model asked for alternatives can answer
AltAnswers ==
    {[kind |-> "error", value |-> <<>>],
     [kind |-> "text", value |-> <<>>],
     [kind |-> "text", value |-> <<" ", "F", "a", "n", "t", "a", "s", "y", ",", " ", "D", "r", "a", "m", "a">>]}

\* The catalog's answers to a page query and to a Media query
NagPages ==
    {NetFail, Http(200, TRUE, None), Http(200, FALSE, Some(<<>>)),
     Http(200, FALSE, Some(<<RecA, RecB>>)),
     Http(200, FALSE, Some(<<RecA, RecB, RecC, RecB, RecC, RecB>>))}

NagDetails ==
    {NetFail, Http(404, TRUE, None), Http(200, FALSE, Some(None)),
     Http(200, TRUE, Some(Some(RecA))),
     Http(200, FALSE, Some(Some(RecA))), Http(200, FALSE, Some(Some(RecB)))}

----------------------------------------------------------------------------
(* The state machine: one call of SearchAnimeTool._run, or one request
   turned into a parameter object *)

NotMapped == [by |-> "none", request |-> <<>>, ok |-> FALSE, out |-> <<>>]

\* No crew is running
NoRun == [crew |-> "none", query |-> <<>>, ran |-> <<>>, found |-> 0, output |-> None,
          result |-> None]

\* No request is with nag.recommend
NoNag ==
    [request |-> <<>>, llm |-> "none", criteria |-> None, details |-> None, log |-> <<>>,
     suggested |-> <<>>, alternatives |-> <<>>, recommendations |-> <<>>,
     printed |-> <<>>, returned |-> FALSE]

\* The variables of a SearchAnimeTool call and of a mapping
toolVars == <<kwargs, variables, raws, genres_acc, tags_acc, calls, outcome, mapped>>

Init ==
    /\ pc = "idle"
    /\ kwargs = NoArgs
    /\ variables = <<>>
    /\ raws = <<>>
    /\ genres_acc = {}
    /\ tags_acc = {}
    /\ calls = <<>>
    /\ outcome = None
    /\ mapped = NotMapped
    /\ run = NoRun
    /\ nag = NoNag

\* _run, lines 140-163: validate, build the variables, start the taste profile
Invoke(kw) ==
    /\ pc = "idle"
    /\ kwargs' = kw
    /\ LET params == SearchAnimeToolInput(kw)
       IN  IF ~params.ok
           THEN /\ outcome' = Some(Raise("ValidationError", "SearchAnimeToolInput"))
                /\ pc' = "done"
                /\ UNCHANGED <<variables, raws>>
           ELSE /\ variables' = run_variables(params)
                /\ outcome' = None
                /\ IF TruthySeq(params.like_animes)
                   THEN /\ raws' = Split(Val(params.like_animes), ",")
                        /\ pc' = "taste"
                   ELSE /\ raws' = <<>>
                        /\ pc' = "main"
    /\ UNCHANGED <<genres_acc, tags_acc, calls, mapped>>
    /\ UNCHANGED <<run, nag>>

\* _build_taste_profile, lines 189-203: one turn of the loop
TasteTurn(resp, llm) ==
    /\ pc = "taste"
    /\ LET turn == taste_turn(Head(raws), resp, llm)
       IN  /\ calls' = calls \o turn.log
           /\ IF turn.result.kind = "raise"
              THEN /\ outcome' = Some(turn.result)
                   /\ pc' = "done"
                   /\ UNCHANGED <<raws, genres_acc, tags_acc>>
              ELSE /\ genres_acc' = genres_acc \cup Range(turn.result.value.g)
                   /\ tags_acc' = tags_acc \cup Range(turn.result.value.t)
                   /\ raws' = Tail(raws)
                   /\ pc' = IF Len(raws) = 1 THEN "main" ELSE "taste"
                   /\ UNCHANGED outcome
    /\ UNCHANGED <<kwargs, variables, mapped>>
    /\ UNCHANGED <<run, nag>>

\* _run, lines 162-174: merge the taste profile, send the main query, return
\* data["data"]["Page"]["media"]
Query(resp) ==
    /\ pc = "main"
    /\ LET params == SearchAnimeToolInput(kwargs)
           vs == IF TruthySeq(params.like_animes)
                 THEN merge_taste(variables, genres_acc, tags_acc)
                 ELSE variables
           data == Tool_fetch_from_anilist(resp)
           result == IF data.kind = "raise" THEN data ELSE Page_media(data.value)
       IN  /\ variables' = vs
           /\ calls' = Append(calls, Call("_fetch_from_anilist", Some(REQUEST_TIMEOUT_S),
                                          vs, resp, result, None, None, None))
           /\ outcome' = Some(result)
    /\ pc' = "done"
    /\ UNCHANGED <<kwargs, raws, genres_acc, tags_acc, mapped>>
    /\ UNCHANGED <<run, nag>>

\* The filter extractor's output obj, validated against AnimeSearchParams
Extract(obj) ==
    /\ pc = "idle"
    /\ mapped' = [by |-> "AnimeSearchParams", request |-> <<>>,
                  ok |-> AnimeSearchParams(obj), out |-> obj]
    /\ pc' = "mapped"
    /\ UNCHANGED <<kwargs, variables, raws, genres_acc, tags_acc, calls, outcome>>
    /\ UNCHANGED <<run, nag>>

\* AnimeRequestTool._run on a request text
MapRequest(user_request) ==
    /\ pc = "idle"
    /\ mapped' = [by |-> "AnimeRequestTool", request |-> user_request,
                  ok |-> TRUE, out |-> AnimeRequestTool_run(user_request)]
    /\ pc' = "mapped"
    /\ UNCHANGED <<kwargs, variables, raws, genres_acc, tags_acc, calls, outcome>>
    /\ UNCHANGED <<run, nag>>

\* interpret_user_request on a request text, the model answering llm
Interpret(user_request, llm) ==
    /\ pc = "idle"
    /\ mapped' = [by |-> "interpret_user_request", request |-> user_request,
                  ok |-> TRUE, out |-> interpret_user_request(user_request, llm)]
    /\ pc' = "mapped"
    /\ UNCHANGED <<kwargs, variables, raws, genres_acc, tags_acc, calls, outcome>>
    /\ UNCHANGED <<run, nag>>

\* AnimeSearchTool._run of the earlier tool, called with a season and a sort
OldInvoke(season, sort, resp) ==
    /\ pc = "idle"
    /\ mapped' = [by |-> "AnimeSearchTool", request |-> [season |-> season, sort |-> sort],
                  ok |-> TRUE,
                  out |-> [variables |->
                               AnimeSearchTool_variables(None, season, None, None, None,
                                                         None, sort, Some(1), Some(20)),
                           result |-> AnimeSearchTool_fetch(resp)]]
    /\ pc' = "mapped"
    /\ UNCHANGED <<kwargs, variables, raws, genres_acc, tags_acc, calls, outcome>>
    /\ UNCHANGED <<run, nag>>

\* A script builds its crew and calls kickoff (main.py, anime_recommender.py,
\* new2.py)
Kickoff(crew) ==
    /\ pc = "idle"
    /\ run' = [NoRun EXCEPT !.crew = crew]
    /\ pc' = "crew"
    /\ UNCHANGED <<toolVars, nag>>

\* recommend_cb, lines 19-24: a blank request is answered at once, any other
\* goes to get_recommendations, which builds the service crew and kicks it off
RecommendCb(query) ==
    /\ pc = "idle"
    /\ IF is_blank(query)
       THEN /\ run' = [NoRun EXCEPT !.crew = "ui", !.query = query,
                                    !.result = Some(recommend_cb(query, Return(<<>>)))]
            /\ pc' = "ran"
       ELSE /\ run' = [NoRun EXCEPT !.crew = "service", !.query = query]
            /\ pc' = "crew"
    /\ UNCHANGED <<toolVars, nag>>

\* The sequential process runs the next task of the list: the task ends (ok),
\* having found n candidates if it searches, or its exception ends kickoff.
\* A task is given the outputs of its context tasks that have run.
RunTask(ok, n) ==
    /\ pc = "crew"
    /\ LET tasks == CrewTasks(run.crew)
           task == tasks[Len(run.ran) + 1]
           ran == Append(run.ran,
                         [task |-> task,
                          missing |-> TaskContext(run.crew, task)
                                          \ {run.ran[i].task : i \in 1..Len(run.ran)}])
           failed == Raise("Exception", task)
           found == IF task \in SearchTasks THEN n ELSE run.found
       IN  /\ n = 0 \/ (ok /\ task \in SearchTasks)
           /\ IF ~ok
              THEN /\ run' = [run EXCEPT !.ran = ran,
                                  !.result = Some(IF run.crew = "service"
                                                  THEN recommend_cb(run.query, failed)
                                                  ELSE failed)]
                   /\ pc' = "ran"
              ELSE IF Len(ran) < Len(tasks)
              THEN /\ run' = [run EXCEPT !.ran = ran, !.found = found]
                   /\ pc' = "crew"
              ELSE IF run.crew = "service"
              THEN /\ run' = [run EXCEPT !.ran = ran, !.found = found]
                   /\ pc' = "parse"
              ELSE /\ run' = [run EXCEPT !.ran = ran, !.found = found,
                                  !.result = Some(Return(<<>>))]
                   /\ pc' = "ran"
    /\ UNCHANGED <<toolVars, nag>>

\* get_recommendations, lines 100-130, and recommend_cb, lines 25-53, on the
\* k-th of the outputs the crew can end with
ParseOutput(k) ==
    /\ pc = "parse"
    /\ run' = [run EXCEPT !.output = Some(CrewOutputs[k]),
                          !.result = Some(recommend_cb(run.query, Return(CrewOutputs[k])))]
    /\ pc' = "ran"
    /\ UNCHANGED <<toolVars, nag>>

\* What recommend prints before it returns: one message, with the titles it
\* lists
Printed(msg, items) == <<[msg |-> msg, items |-> items]>>

\* nag.recommend, lines 323-331 and 365-391: the request is interpreted; a
\* criteria value without 'type', 'title' or 'genre' raises inside the try
\* block and the error message is printed
NagRecommend(user_request, llm) ==
    /\ pc = "idle"
    /\ LET criteria == interpret_user_request(user_request, llm)
           start == [NoNag EXCEPT !.request = user_request, !.llm = llm.kind,
                                     !.criteria = Some(criteria)]
           type == IF "type" \in DOMAIN criteria THEN criteria["type"] ELSE "KeyError"
       IN  IF type = "similar" /\ "title" \in DOMAIN criteria
           THEN nag' = start /\ pc' = "nag_details"
           ELSE IF type = "genre" /\ "genre" \in DOMAIN criteria
           THEN nag' = start /\ pc' = "nag_genre"
           ELSE IF type \in {"KeyError", "similar", "genre"}
           THEN /\ nag' = [start EXCEPT !.printed = Printed("an error occurred", <<>>),
                                        !.returned = TRUE]
                /\ pc' = "returned"
           ELSE /\ nag' = [start EXCEPT !.printed = Printed("couldn't understand", <<>>),
                                        !.returned = TRUE]
                /\ pc' = "returned"
    /\ UNCHANGED <<toolVars, run>>

\* nag.recommend, lines 331-336: the details of the title are fetched
NagGetDetails(resp) ==
    /\ pc = "nag_details"
    /\ LET title == Val(nag.criteria)["title"]
           anime_details == get_anime_details(title, resp)
           log == Append(nag.log, NagCall("get_anime_details", title, resp,
                                          IF IsNone(anime_details) THEN 0 ELSE 1))
       IN  IF IsNone(anime_details)
           THEN /\ nag' = [nag EXCEPT !.log = log,
                                      !.printed = Printed("couldn't find information", <<>>),
                                      !.returned = TRUE]
                /\ pc' = "returned"
           ELSE /\ nag' = [nag EXCEPT !.log = log, !.details = anime_details]
                /\ pc' = "nag_similar"
    /\ UNCHANGED <<toolVars, run>>

\* nag.recommend, lines 338-363: the similar titles are fetched and listed
NagSimilar(resp) ==
    /\ pc = "nag_similar"
    /\ LET title == Val(nag.criteria)["title"]
           anime_details == Val(nag.details)
           genres == anime_details.genres
           all_tags == anime_details.tags
           tags == [i \in 1..Min(5, Len(all_tags)) |-> all_tags[i].name]
           recommendations == get_similar_anime(genres, tags, title, 5, resp)
           log == Append(nag.log, NagCall("get_similar_anime", title, resp,
                                          Len(recommendations)))
       IN  nag' = [nag EXCEPT
                     !.log = log,
                     !.recommendations = recommendations,
                     !.printed = IF recommendations = <<>>
                                 THEN Printed("couldn't find any similar", <<>>)
                                 ELSE Printed("recommendations", Listed(recommendations)),
                     !.returned = TRUE]
    /\ pc' = "returned"
    /\ UNCHANGED <<toolVars, run>>

\* robust_genre_search, lines 302-305, and nag.recommend, lines 371-380: the
\* genre's own query
NagGenre(resp) ==
    /\ pc = "nag_genre"
    /\ LET genre == Val(nag.criteria)["genre"]
           results == get_anime_by_genre_or_tag(genre, 5, resp)
           log == Append(nag.log, NagCall("get_anime_by_genre_or_tag", genre, resp,
                                          Len(results)))
       IN  IF robust_genre_search(results, TRUE) = "return"
           THEN /\ nag' = [nag EXCEPT !.log = log,
                                      !.recommendations = results,
                                      !.printed = Printed("recommendations", Listed(results)),
                                      !.returned = TRUE]
                /\ pc' = "returned"
           ELSE /\ nag' = [nag EXCEPT !.log = log]
                /\ pc' = "nag_retry"
    /\ UNCHANGED <<toolVars, run>>

\* robust_genre_search, lines 307-308: the alternatives are asked for
NagRetry(llm) ==
    /\ pc = "nag_retry"
    /\ LET alternatives == retry_with_alternatives(Val(nag.criteria)["genre"], llm)
       IN  nag' = [nag EXCEPT !.suggested = alternatives, !.alternatives = alternatives]
    /\ pc' = "nag_alt"
    /\ UNCHANGED <<toolVars, run>>

\* robust_genre_search, lines 310-320, and nag.recommend, lines 371-382: one
\* turn of the loop over the alternatives
NagAlt(resp) ==
    /\ pc = "nag_alt"
    /\ LET alt == Head(nag.alternatives)
           results == get_anime_by_genre_or_tag(alt, 5, resp)
           log == Append(nag.log, NagCall("get_anime_by_genre_or_tag", alt, resp,
                                          Len(results)))
           step == robust_genre_search(results, Len(nag.alternatives) > 1)
       IN  IF step = "return"
           THEN /\ nag' = [nag EXCEPT !.log = log,
                                      !.recommendations = results,
                                      !.printed = Printed("recommendations", Listed(results)),
                                      !.returned = TRUE]
                /\ pc' = "returned"
           ELSE IF step = "give up"
           THEN /\ nag' = [nag EXCEPT !.log = log, !.alternatives = <<>>,
                                      !.printed = Printed("no recommendations found", <<>>),
                                      !.returned = TRUE]
                /\ pc' = "returned"
           ELSE /\ nag' = [nag EXCEPT !.log = log, !.alternatives = Tail(@)]
                /\ pc' = "nag_alt"
    /\ UNCHANGED <<toolVars, run>>

\* The call is over; nothing of it is kept for the next one
Finish ==
    /\ pc \in {"done", "mapped", "ran", "returned"}
    /\ pc' = "idle"
    /\ kwargs' = NoArgs
    /\ variables' = <<>>
    /\ raws' = <<>>
    /\ genres_acc' = {}
    /\ tags_acc' = {}
    /\ calls' = <<>>
    /\ outcome' = None
    /\ mapped' = NotMapped
    /\ run' = NoRun
    /\ nag' = NoNag

Next ==
    \/ pc = "idle" /\ \E kw \in KwargsSet : Invoke(kw)
    \/ pc = "taste" /\ \E resp \in Responses, llm \in LlmOutputs : TasteTurn(resp, llm)
    \/ pc = "main" /\ \E resp \in Responses : Query(resp)
    \/ pc = "idle" /\ \E user_request \in Requests : MapRequest(user_request)
    \/ pc = "idle" /\ \E user_request \in Requests, llm \in Interpretations :
                          Interpret(user_request, llm)
    \/ pc = "idle" /\ \E obj \in ExtractorOutputs : Extract(obj)
    \/ pc = "idle" /\ \E season \in OldSeasons, sort \in OldSorts, resp \in Responses :
                          OldInvoke(season, sort, resp)
    \/ pc = "idle" /\ \E crew \in CrewNames \ {"service"} : Kickoff(crew)
    \/ pc = "idle" /\ \E query \in Queries : RecommendCb(query)
    \/ pc = "crew" /\ \E ok \in BOOLEAN, n \in 0..MaxFound : RunTask(ok, n)
    \/ pc = "parse" /\ \E k \in 1..Len(CrewOutputs) : ParseOutput(k)
    \/ pc = "idle" /\ \E user_request \in NagRequests, llm \in NagInterpretations :
            NagRecommend(user_request, llm)
    \/ pc = "nag_details" /\ \E resp \in NagDetails : NagGetDetails(resp)
    \/ pc = "nag_similar" /\ \E resp \in NagPages : NagSimilar(resp)
    \/ pc = "nag_genre" /\ \E resp \in NagPages : NagGenre(resp)
    \/ pc = "nag_retry" /\ \E llm \in AltAnswers : NagRetry(llm)
    \/ pc = "nag_alt" /\ \E resp \in NagPages : NagAlt(resp)
    \/ Finish

Spec == Init /\ [][Next]_vars

\* The steps of robust_genre_search: straight-line code and a for loop over
\* a list, which run on once started
RobustGenreSearchSteps ==
    \/ pc = "nag_genre" /\ \E resp \in NagPages : NagGenre(resp)
    \/ pc = "nag_retry" /\ \E llm \in AltAnswers : NagRetry(llm)
    \/ pc = "nag_alt" /\ \E resp \in NagPages : NagAlt(resp)

FairSpec == Spec /\ WF_vars(RobustGenreSearchSteps)

----------------------------------------------------------------------------
(* What the claims speak of *)

\* The seeds of a call: the segments of like_animes, split on commas and
\* trimmed, that are not blank
SeedsOf(kw) ==
    IF "like_animes" \in kw.given /\ ~IsNone(kw.v.like_animes)
    THEN SelectSeq(Split(Val(kw.v.like_animes), ","), LAMBDA r : Len(Strip(r)) > 0)
    ELSE <<>>

\* The call kw with the keyword argument f left out
Without(kw, f) == [given |-> kw.given \ {f}, v |-> [kw.v EXCEPT ![f] = None]]

MainCalls == {i \in 1..Len(calls) : calls[i].client = "_fetch_from_anilist"}
SeedCalls == {i \in 1..Len(calls) : calls[i].client = "search_anime"}

NoDup(l) == \A i, j \in 1..Len(l) : l[i] = l[j] => i = j

Official == Range(OFFICIAL_GENRES)

\* C1: a catalog search call never turns a failure into a list: on a transport
\* failure, a status other than 200 or an errors payload the client raises the
\* one error class (RuntimeError) with the detail, and it returns a list only
\* when none of the three occurred.
C1_FailureIsRaised ==
    \A i \in 1..Len(calls) :
        /\ calls[i].failure # "none" =>
               /\ calls[i].kind = "raise"
               /\ calls[i].exc = "RuntimeError"
               /\ calls[i].detail # ""
        /\ calls[i].kind = "return" => calls[i].failure = "none"

\* C2: taste expansion is best-effort: when a call with seeds is over, every
\* seed was looked up (a failing one skipped), the main query was issued and
\* the call ended with the main query's result.
C2_FailedSeedIsSkipped ==
    (pc = "done" /\ SearchAnimeToolInput(kwargs).ok /\ Len(SeedsOf(kwargs)) > 0) =>
        /\ Cardinality(SeedCalls) = Len(SeedsOf(kwargs))
        /\ MainCalls # {}
        /\ outcome # None
        /\ Val(outcome).kind = calls[Len(calls)].kind

\* C3: every HTTP request of a search call, the main query and every seed
\* lookup, is sent with a timeout.
C3_EveryRequestHasTimeout ==
    \A i \in 1..Len(calls) : ~IsNone(calls[i].timeout)

\* C4 as stated: a call without a non-blank seed performs exactly one catalog
\* request, whatever the other arguments are.
C4_OneRequestWhateverTheArguments ==
    (pc = "done" /\ Len(SeedsOf(kwargs)) = 0) => Len(calls) = 1

\* C4 as amended: a call whose arguments pass validation and that has no
\* non-blank seed performs exactly one catalog request, whether that request
\* succeeds or fails; none is sent before the main query.
C4_OneRequestWithoutSeeds ==
    (SearchAnimeToolInput(kwargs).ok /\ Len(SeedsOf(kwargs)) = 0) =>
        /\ pc = "done" => Len(calls) = 1 /\ MainCalls = {1}
        /\ pc \in {"taste", "main"} => Len(calls) = 0

\* C4 witness: like_animes was given and holds only blank segments, and the
\* one request of the call failed
C4_Witness ==
    /\ pc = "done"
    /\ "like_animes" \in kwargs.given
    /\ kwargs.v.like_animes = Some(<<",", " ">>)
    /\ Len(calls) = 1
    /\ calls[1].kind = "raise"

\* C5: a call with seeds that all resolve to zero hits sends the variables
\* the same call without like_animes builds, and ends with the main query's
\* result: the seeds contribute no genre and no tag.
C5_ZeroHitSeedChangesNothing ==
    (/\ pc = "done"
     /\ SeedCalls # {}
     /\ \A i \in SeedCalls : calls[i].kind = "return" /\ IsNone(calls[i].hit)) =>
        /\ MainCalls = {Len(calls)}
        /\ calls[Len(calls)].variables =
               run_variables(SearchAnimeToolInput(Without(kwargs, "like_animes")))
        /\ variables = calls[Len(calls)].variables
        /\ Val(outcome).kind = calls[Len(calls)].kind

\* C5 witness: one seed with zero hits next to a genres filter, the main
\* query answered with a record
C5_Witness ==
    /\ pc = "done"
    /\ kwargs.given = {"genres", "like_animes"}
    /\ kwargs.v.like_animes = Some(<<"a">>)
    /\ Len(calls) = 2
    /\ calls[1].client = "search_anime" /\ calls[1].kind = "return"
    /\ IsNone(calls[1].hit)
    /\ "genres" \in DOMAIN calls[2].variables
    /\ outcome = Some(Return(<<RecA>>))

\* What the resolved seeds of the call contributed (f is "g" or "t")
Contributed(f) ==
    UNION {Range(Val(calls[i].added)[f]) :
               i \in {j \in SeedCalls : ~IsNone(calls[j].added)}}

\* The list a caller passed (None counts as the empty list)
ListOf(o) == IF IsNone(o) THEN <<>> ELSE Val(o)

\* C6: after a taste expansion in which a seed resolved, the genres (tags)
\* sent are the set union of the caller's genres (tags) and those the resolved
\* seeds contributed: nothing twice, nothing of the caller's dropped.
C6_SentIsSetUnion ==
    \A i \in MainCalls :
        (\E j \in SeedCalls : ~IsNone(calls[j].added)) =>
            LET sentG == GetList(calls[i].variables, "genres")
                sentT == GetList(calls[i].variables, "tags")
            IN  /\ Range(sentG) = Range(ListOf(kwargs.v.genres)) \cup Contributed("g")
                /\ Range(sentT) = Range(ListOf(kwargs.v.tags)) \cup Contributed("t")
                /\ NoDup(sentG)
                /\ NoDup(sentT)

\* C7: what taste expansion adds for a seed comes from the seed's top hit:
\* each genre from its genre list, each tag from its tag names.
C7_AddedComesFromHit ==
    \A i \in SeedCalls :
        ~IsNone(calls[i].added) =>
            LET hit == Val(calls[i].hit)
            IN  /\ Range(Val(calls[i].added).g) \subseteq Range(hit.genres)
                /\ Range(Val(calls[i].added).t) \subseteq
                       {hit.tags[k].name : k \in 1..Len(hit.tags)}

\* C8: every genre value of a parameter object is one of OFFICIAL_GENRES, in
\* the variables sent to the catalog, in the extractor's validated output and
\* in the output of the deterministic mappers.
C8_GenresAreOfficial ==
    /\ \A i \in 1..Len(calls) :
           LET vs == calls[i].variables
           IN  /\ "genre" \in DOMAIN vs => Join(Val(vs["genre"])) \in Official
               /\ "genres" \in DOMAIN vs => Range(Val(vs["genres"])) \subseteq Official
    /\ (mapped.by = "AnimeSearchParams" /\ mapped.ok) =>
           Range(ListOf(mapped.out.v.genres)) \subseteq Official
    /\ mapped.by = "AnimeRequestTool" =>
           /\ "genre" \in DOMAIN mapped.out => mapped.out["genre"] \in Official
           /\ "genres" \in DOMAIN mapped.out =>
                  Range(mapped.out["genres"]) \subseteq Official
    /\ (mapped.by = "interpret_user_request" /\ mapped.out["type"] = "genre") =>
           mapped.out["genre"] \in Official

YearOK(o) == IsNone(o) \/ (Val(o) >= 1960 /\ Val(o) <= 2100)
PerPageOK(o) == IsNone(o) \/ (Val(o) >= 1 /\ Val(o) <= 50)

\* C9: validation fails whenever per_page is outside [1,50] or year outside
\* [1960,2100], in the extractor's AnimeSearchParams and in the tool's
\* SearchAnimeToolInput, and no such value is sent to the catalog.
C9_OutOfRangeIsRejected ==
    /\ (mapped.by = "AnimeSearchParams" /\ mapped.ok) =>
           YearOK(mapped.out.v.year) /\ PerPageOK(mapped.out.v.per_page)
    /\ (pc \in {"taste", "main"} \/ calls # <<>>) =>
           YearOK(kwargs.v.year) /\ PerPageOK(kwargs.v.per_page)
    /\ \A i \in MainCalls :
           LET vs == calls[i].variables
           IN  /\ "seasonYear" \in DOMAIN vs => YearOK(vs["seasonYear"])
               /\ PerPageOK(vs["perPage"])

\* C10: the variables sent to the catalog hold no key whose value is null.
C10_NoNullValueIsSent ==
    \A i \in 1..Len(calls) :
        \A k \in DOMAIN calls[i].variables : ~IsNone(calls[i].variables[k])

ValidSorts == Range(VALID_SORT_VALUES)

\* What the claim says a sort text maps to
ExpectedSort(t) ==
    IF Join(Upper(t)) \in ValidSorts THEN Join(Upper(t))
    ELSE IF Join(Lower(t)) \in DOMAIN sort_mapping THEN sort_mapping[Join(Lower(t))]
    ELSE "POPULARITY_DESC"

\* C11: every sort token sent to the catalog is an accepted sort value, by
\* the current tool, by the seed lookups and by the earlier tool, whose
\* tokens are the accepted value the input equals ignoring case, else its
\* table entry, else POPULARITY_DESC.
C11_SortTokensAreAccepted ==
    /\ \A i \in 1..Len(calls) :
           LET vs == calls[i].variables
           IN  ("sort" \in DOMAIN vs /\ ~IsNone(vs["sort"])) =>
                   Range(Val(vs["sort"])) \subseteq ValidSorts
    /\ mapped.by = "AnimeSearchTool" =>
           LET vs == mapped.out.variables
               given == mapped.request.sort
           IN  "sort" \in DOMAIN vs =>
                   /\ Range(Val(vs["sort"])) \subseteq ValidSorts
                   /\ \A k \in 1..Len(Val(given).value) :
                          Val(vs["sort"])[k] = ExpectedSort(Val(given).value[k])

SeasonValues == {WINTER, SPRING, SUMMER, FALL}

\* C12: a season sent to the catalog is one of WINTER, SPRING, SUMMER, FALL,
\* and a season name given in any letter case is sent as that upper-case
\* value rather than refused.
C12_SeasonIsEnumerated ==
    /\ \A i \in 1..Len(calls) :
           LET vs == calls[i].variables
           IN  "season" \in DOMAIN vs => Val(vs["season"]) \in SeasonValues
    /\ mapped.by = "AnimeSearchTool" =>
           LET vs == mapped.out.variables
           IN  "season" \in DOMAIN vs => Val(vs["season"]) \in SeasonValues
    /\ mapped.by = "AnimeRequestTool" =>
           ("season" \in DOMAIN mapped.out =>
                mapped.out["season"] \in {"WINTER", "SPRING", "SUMMER", "FALL"})
    /\ (pc = "done" /\ "season" \in kwargs.given /\ ~IsNone(kwargs.v.season)
            /\ Upper(Val(kwargs.v.season)) \in SeasonValues
            /\ SearchAnimeToolInput(Without(kwargs, "season")).ok) =>
           /\ SearchAnimeToolInput(kwargs).ok
           /\ \A i \in MainCalls : calls[i].variables["season"] =
                                       Some(Upper(Val(kwargs.v.season)))

\* C13: on a successful catalog response the client returns the record list
\* of data.Page.media as it is: the main query's result is the call's
\* result, a seed lookup's result is the list the lookup got.
C13_MediaReturnedVerbatim ==
    /\ \A i \in 1..Len(calls) :
           calls[i].failure = "none" =>
               /\ calls[i].kind = "return"
               /\ calls[i].value = Val(calls[i].media)
    /\ \A i \in MainCalls :
           calls[i].failure = "none" => outcome = Some(Return(Val(calls[i].media)))

\* C13 witness: a call with two filters whose main query is answered with two
\* records, the first without an English title
C13_Witness ==
    /\ pc = "done"
    /\ kwargs.given = {"genres", "tags"}
    /\ Len(calls) = 1
    /\ calls[1].failure = "none"
    /\ calls[1].media = Some(<<RecB, RecA>>)
    /\ outcome = Some(Return(<<RecB, RecA>>))

\* The recommendation list a UI request ended with (empty when it ended
\* with a message only)
Cards == Val(run.result).value.cards

\* C14: the recommendation list handed to the caller has exactly min(5, N)
\* entries, N the number of candidates the search returned.
C14_ListHasMinFiveEntries ==
    (pc = "ran" /\ run.crew = "service" /\ ~IsNone(run.output)
        /\ Val(run.result).value.msg # "An error occurred") =>
        Len(Cards) = Min(5, run.found)

\* C15: get_recommendations returns a list whose every element validated, or
\* it raises; it raises when the final output is missing, is no JSON, is no
\* list (or single-key wrapper of a list) or holds an invalid element.
C15_NoPartialParse ==
    (pc = "ran" /\ run.crew = "service" /\ ~IsNone(run.output)) =>
        LET out == Val(run.output)
            recs == get_recommendations(Return(out))
            json == IF ~IsNone(out.json_dict) THEN out.json_dict
                    ELSE IF ~IsNone(out.raw) THEN Val(out.raw).json
                    ELSE None
            list == IF IsNone(json) THEN None
                    ELSE IF Val(json).t = "list" THEN Some(Val(json).v)
                    ELSE IF /\ ~IsNone(out.json_dict) /\ Val(json).t = "dict"
                            /\ Len(Val(json).v) = 1 /\ Val(json).v[1].x.t = "list"
                    THEN Some(Val(json).v[1].x.v)
                    ELSE None
        IN  IF ~IsNone(out.pydantic) THEN recs = Return(Val(out.pydantic))
            ELSE IF IsNone(list) THEN recs.kind = "raise"
            ELSE IF \E i \in 1..Len(Val(list)) : parse_obj(Val(list)[i]).kind = "raise"
            THEN recs.kind = "raise"
            ELSE /\ recs.kind = "return"
                 /\ Len(recs.value) = Len(Val(list))
                 /\ \A i \in 1..Len(Val(list)) :
                        recs.value[i] = parse_obj(Val(list)[i]).value

\* The final list of a crew output, by the channel get_recommendations reads:
\* the pydantic root, else the json_dict list or the list in its single-key
\* wrapper, else the list the raw text holds
EmptyFinalList(out) ==
    IF ~IsNone(out.pydantic) THEN Val(out.pydantic) = <<>>
    ELSE IF ~IsNone(out.json_dict)
    THEN LET j == Val(out.json_dict)
         IN  \/ j = JList(<<>>)
             \/ j.t = "dict" /\ Len(j.v) = 1 /\ j.v[1].x = JList(<<>>)
    ELSE ~IsNone(out.raw) /\ Val(out.raw).json = Some(JList(<<>>))

\* C16: when the final list of the pipeline is empty, in whichever of the
\* three channels it comes, get_recommendations returns the empty list
\* without raising and the UI callback reports 'No recommendations found'.
C16_EmptyListIsNoError ==
    (pc = "ran" /\ run.crew = "service" /\ ~IsNone(run.output)
        /\ EmptyFinalList(Val(run.output))) =>
        /\ get_recommendations(Return(Val(run.output))) = Return(<<>>)
        /\ Val(run.result) = Return([msg |-> "No recommendations found", cards |-> <<>>])

\* C16 witness: a request whose search found nothing ended with the raw text
\* [] and the UI reported that nothing was found
C16_Witness ==
    /\ pc = "ran"
    /\ run.crew = "service"
    /\ run.found = 0
    /\ run.output = Some(CrewOutput(None, None, RawJson(JList(<<>>))))
    /\ Val(run.result).value.msg = "No recommendations found"

\* The four messages recommend_cb can return
UiMessages ==
    {"Please enter a request first", "An error occurred", "No recommendations found",
     "cards"}

ExtractorTasks == {"map_request", "analyze_request_task"}
FailedInterpretations == {"error", "unparsable"}

\* C18: when filter extraction produces no valid parameter object the request
\* does not fail, and the catalog is queried with no filter at all (no genre,
\* tag, season, year or search term).
C18_ExtractionFailureMeansNoFilters ==
    /\ (nag.llm \in FailedInterpretations) =>
           /\ \A i \in 1..Len(nag.log) : nag.log[i].filters = {}
           /\ pc = "returned" => Len(nag.log) >= 1
    /\ (pc = "ran" /\ run.crew = "service" /\ Len(run.ran) = 1
            /\ run.ran[1].task \in ExtractorTasks) =>
           Val(run.result).value.msg # "An error occurred"

\* The pipeline variants in which a task declares an earlier stage as its
\* context
DeclaringCrews == {"anime_recommender", "new2"}

\* C19: in the variants that declare contexts, the stages run in the order
\* extractor, search, formatter, each once: a task starts only when the tasks
\* of its context have run.
C19_StagesRunInOrder ==
    (run.crew \in DeclaringCrews) =>
        /\ \A i \in 1..Len(run.ran) : run.ran[i].missing = {}
        /\ (pc = "ran" /\ Val(run.result).kind = "return") =>
               [i \in 1..Len(run.ran) |-> run.ran[i].task] =
                   <<"analyze_request_task", "find_candidates_task",
                     "format_recommendations_task">>

\* The genre queries of the log of nag.recommend
GenreQueries == {i \in 1..Len(nag.log) : nag.log[i].fn = "get_anime_by_genre_or_tag"}

C21_SeedIsNotRecommended ==
    /\ (pc = "returned" /\ ~IsNone(nag.details)) =>
           \A i \in 1..Len(nag.recommendations) :
               nag.recommendations[i].id # Val(nag.details).id
    /\ (pc = "done" /\ ~IsNone(outcome) /\ Val(outcome).kind = "return") =>
           \A i \in SeedCalls :
               ~IsNone(calls[i].hit) =>
                   \A j \in 1..Len(Val(outcome).value) :
                       Val(outcome).value[j].id # Val(calls[i].hit).id

\* The title of a record as the specification words it: the English title
\* when it is present and not empty, and the romaji title exactly when the
\* English title is absent
TitleAsStated(rec, shown) ==
    /\ (~IsNone(rec.title.english) /\ Val(rec.title.english) # "") =>
           shown = rec.title.english
    /\ (shown = rec.title.romaji) <=> IsNone(rec.title.english)

\* The title `english or romaji` evaluates to: the romaji title when the
\* English title is None or the empty string
EnglishOrRomaji(rec) ==
    IF IsNone(rec.title.english) \/ Val(rec.title.english) = ""
    THEN rec.title.romaji
    ELSE rec.title.english

\* C22 as stated: the shown title is the English title whenever that is present
\* and non-empty, and the romaji title exactly when the English title is
\* absent, in the printed recommendations and in the title passed to the
\* taste classifier.
C22_RomajiExactlyWhenEnglishAbsent ==
    /\ (pc = "returned" /\ nag.recommendations # <<>>) =>
           \A i \in 1..Len(nag.recommendations) :
               TitleAsStated(nag.recommendations[i], nag.printed[1].items[i])
    /\ \A i \in SeedCalls :
           ~IsNone(calls[i].hit) =>
               TitleAsStated(Val(calls[i].hit), Val(calls[i].title))

\* C22 amended: the shown title is the English title when that is present and
\* non-empty, and the romaji title when the English title is absent or the
\* empty string.
C22_RomajiWhenEnglishAbsentOrEmpty ==
    /\ (pc = "returned" /\ nag.recommendations # <<>>) =>
           /\ Len(nag.printed[1].items) = Len(nag.recommendations)
           /\ \A i \in 1..Len(nag.recommendations) :
                  nag.printed[1].items[i] = EnglishOrRomaji(nag.recommendations[i])
    /\ \A i \in SeedCalls :
           ~IsNone(calls[i].hit) =>
               calls[i].title = Some(EnglishOrRomaji(Val(calls[i].hit)))

\* C22 witness: a listed record has the empty string as its English title
\* and is printed under its romaji title
C22_Witness ==
    /\ pc = "returned"
    /\ \E i \in 1..Len(nag.recommendations) :
           /\ nag.recommendations[i] = RecC
           /\ nag.printed[1].items[i] = Some("Mushishi")

\* A seed lookup raised, or the classification of its first hit did
SeedTurnRaised ==
    \E i \in SeedCalls :
        \/ calls[i].kind = "raise"
        \/ ~IsNone(calls[i].hit) /\ IsNone(calls[i].added)

\* C23: with k non-blank seeds the seed lookups are issued one per seed, in
\* the order of the seeds, all before the main query; the main query is
\* issued at most once and last, and not at all when a seed lookup or a
\* classification raised.
C23_SeedLookupsThenMainQuery ==
    LET seeds == SeedsOf(kwargs)
    IN  /\ \A i \in SeedCalls :
               /\ i <= Len(seeds)
               /\ calls[i].variables = seed_variables(Strip(seeds[i]))
        /\ \A i \in MainCalls : i = Len(calls) /\ i = Len(seeds) + 1
        /\ SeedTurnRaised => (MainCalls = {} /\ pc = "done")
        /\ pc = "main" => Len(calls) = Len(seeds)
        /\ (pc = "done" /\ SearchAnimeToolInput(kwargs).ok /\ ~SeedTurnRaised) =>
               MainCalls = {Len(seeds) + 1}

\* C23 witness: two seeds, a blank segment between them, were looked up in
\* their order and the main query followed
C23_Witness ==
    /\ pc = "done"
    /\ Len(SeedsOf(kwargs)) = 2
    /\ SeedCalls = {1, 2}
    /\ MainCalls = {3}
    /\ calls[1].variables["search"] = Some(<<"a">>)
    /\ calls[2].variables["search"] = Some(<<"a", "a">>)

\* What robust_genre_search has done so far is what its loop prescribes
RobustGenreSearchInOrder ==
    (GenreQueries # {}) =>
        LET last == nag.log[Len(nag.log)]
        IN  /\ nag.log[1].arg = Val(nag.criteria)["genre"]
            /\ \A i \in 2..Len(nag.log) : nag.log[i].arg = nag.suggested[i - 1]
            /\ \A i \in 1..(Len(nag.log) - 1) : nag.log[i].n = 0
            /\ pc \in {"nag_alt", "returned"} => Len(nag.log) <= 1 + Len(nag.suggested)
            /\ pc = "nag_alt" =>
                   nag.alternatives =
                       SubSeq(nag.suggested, Len(nag.log), Len(nag.suggested))
            /\ (pc = "returned" /\ last.n > 0) =>
                   (last.failure = "none" /\ nag.recommendations = Val(last.media))
            /\ (pc = "returned" /\ last.n = 0) =>
                   /\ nag.recommendations = <<>>
                   /\ Len(nag.log) = 1 + Len(nag.suggested)
                   /\ Len(nag.suggested) >= 1

RECURSIVE IsSubsequence(_, _)
IsSubsequence(a, b) ==
    IF a = <<>> THEN TRUE
    ELSE IF b = <<>> THEN FALSE
    ELSE IF Head(a) = Head(b) THEN IsSubsequence(Tail(a), Tail(b))
    ELSE IsSubsequence(a, Tail(b))

\* The title of a record holds the text, letter case ignored
TitleHolds(rec, text) ==
    \/ Contains(TitleLower(rec.title.english), Lower(text))
    \/ Contains(TitleLower(rec.title.romaji), Lower(text))

\* C25: get_similar_anime returns at most per_page (5) records, taken from
\* the catalog response in their order, none of whose English or romaji
\* title contains the excluded title ignoring case; on a failure it returns
\* the empty list.
C25_SimilarAreFilteredAndCapped ==
    (pc = "returned" /\ Len(nag.log) = 2 /\ nag.log[2].fn = "get_similar_anime") =>
        LET call == nag.log[2]
            recs == nag.recommendations
        IN  /\ Len(recs) <= 5
            /\ Len(recs) = call.n
            /\ (call.failure # "none" \/ IsNone(call.media)) => recs = <<>>
            /\ (call.failure = "none" /\ ~IsNone(call.media)) =>
                   IsSubsequence(recs, Val(call.media))
            /\ \A i \in 1..Len(recs) : ~TitleHolds(recs[i], Val(nag.criteria)["title"])

\* C25 witness: the title typed as "Gin" took the record titled Gintama out
\* of the page and the other record was returned
C25_Witness ==
    /\ pc = "returned"
    /\ Len(nag.log) = 2
    /\ nag.log[2].fn = "get_similar_anime"
    /\ Val(nag.criteria)["title"] = <<"G", "i", "n">>
    /\ nag.log[2].media = Some(<<RecA, RecB>>)
    /\ nag.recommendations = <<RecA>>

\* The detail query of the log found no record: it failed, or Media was null
DetailsFailed(call) ==
    \/ call.failure # "none"
    \/ IsNone(call.media)
    \/ IsNone(Val(call.media))

\* C26: in the 'similar' path get_similar_anime is called only after
\* get_anime_details returned a record; when get_anime_details returns None
\* (a status other than 200, an errors payload, a null Media, an exception)
\* recommend prints the not-found message and issues no further query.
C26_SimilarOnlyAfterDetails ==
    /\ \A i \in 1..Len(nag.log) :
           nag.log[i].fn = "get_similar_anime" =>
               /\ i = 2
               /\ nag.log[1].fn = "get_anime_details"
               /\ ~DetailsFailed(nag.log[1])
               /\ nag.details = Val(nag.log[1].media)
    /\ (Len(nag.log) >= 1 /\ nag.log[1].fn = "get_anime_details"
            /\ DetailsFailed(nag.log[1])) =>
           /\ pc = "returned"
           /\ Len(nag.log) = 1
           /\ IsNone(nag.details)
           /\ nag.printed = Printed("couldn't find information", <<>>)

\* C26 witness: the detail query was answered with status 200 and an errors
\* payload; the not-found message was printed and no page query followed
C26_Witness ==
    /\ pc = "returned"
    /\ Len(nag.log) = 1
    /\ nag.log[1].fn = "get_anime_details"
    /\ nag.log[1].failure = "errors"
    /\ nag.printed[1].msg = "couldn't find information"

\* The genres of genre_list the lower-cased request text holds, title-cased
DetectedGenres(user_request) ==
    {Join(Title(genre_list[i])) :
        i \in {k \in 1..Len(genre_list) : Contains(Lower(user_request), genre_list[k])}}

\* C27: AnimeRequestTool._run never emits both genre and genres: one detected
\* genre yields only genre, two or more only genres holding all of them, none
\* neither key; every output holds sort, page and per_page (POPULARITY_DESC,
\* 1, 10).
C27_GenreXorGenres ==
    (pc = "mapped" /\ mapped.by = "AnimeRequestTool") =>
        LET out == mapped.out
            detected == DetectedGenres(mapped.request)
        IN  /\ ~("genre" \in DOMAIN out /\ "genres" \in DOMAIN out)
            /\ Cardinality(detected) = 1 =>
                   /\ "genre" \in DOMAIN out
                   /\ "genres" \notin DOMAIN out
                   /\ detected = {out["genre"]}
            /\ Cardinality(detected) >= 2 =>
                   /\ "genres" \in DOMAIN out
                   /\ "genre" \notin DOMAIN out
                   /\ Range(out["genres"]) = detected
                   /\ Len(out["genres"]) = Cardinality(detected)
            /\ Cardinality(detected) = 0 =>
                   ("genre" \notin DOMAIN out /\ "genres" \notin DOMAIN out)
            /\ {"sort", "page", "per_page"} \subseteq DOMAIN out
            /\ out["sort"] = "POPULARITY_DESC"
            /\ out["page"] = 1
            /\ out["per_page"] = 10

\* C27 witness: the request "drama action" names two genres and is mapped to
\* the key genres alone
C27_Witness ==
    /\ pc = "mapped"
    /\ mapped.by = "AnimeRequestTool"
    /\ mapped.request = <<"d", "r", "a", "m", "a", " ", "a", "c", "t", "i", "o", "n">>
    /\ "genre" \notin DOMAIN mapped.out
    /\ mapped.out["genres"] = <<"Action", "Drama">>

\* The season values of the input schema, as texts
SeasonNames == {Join(v) : v \in SeasonValues}

\* C28: every parameter object AnimeRequestTool._run produces lies within
\* the bounds of the search tool's input schema: year, when present, in
\* [1960, 2100], per_page in [1, 50], page >= 1, season, when present, one of
\* WINTER, SPRING, SUMMER, FALL.
C28_MapperOutputWithinSchema ==
    (pc = "mapped" /\ mapped.by = "AnimeRequestTool") =>
        LET out == mapped.out
        IN  /\ "year" \in DOMAIN out => (out["year"] >= 1960 /\ out["year"] <= 2100)
            /\ out["per_page"] >= 1 /\ out["per_page"] <= 50
            /\ out["page"] >= 1
            /\ "season" \in DOMAIN out => out["season"] \in SeasonNames

\* What the UI callback shows for what get_recommendations gave
Shown(recs) ==
    IF recs.kind = "raise" THEN [msg |-> "An error occurred", cards |-> <<>>]
    ELSE IF recs.value = <<>> THEN [msg |-> "No recommendations found", cards |-> <<>>]
    ELSE [msg |-> "cards", cards |-> recs.value]

\* C29: get_recommendations reads the channels in the precedence pydantic,
\* json_dict, raw: a pydantic output that is not null is returned whatever
\* the other channels hold; a json_dict that is a dict is accepted only with
\* exactly one key whose value is a list, else RuntimeError is raised; raw is
\* parsed only when both other channels are null.
C29_ChannelPrecedence ==
    (pc = "ran" /\ run.crew = "service" /\ ~IsNone(run.output)) =>
        LET out == Val(run.output)
            recs == get_recommendations(Return(out))
            j == Val(out.json_dict)
        IN  /\ Val(run.result).value = Shown(recs)
            /\ ~IsNone(out.pydantic) => recs = Return(Val(out.pydantic))
            /\ (IsNone(out.pydantic) /\ ~IsNone(out.json_dict) /\ j.t = "dict") =>
                   IF Len(j.v) = 1 /\ j.v[1].x.t = "list"
                   THEN recs = parse_all(j.v[1].x)
                   ELSE recs.kind = "raise" /\ recs.exc = "RuntimeError"
            /\ (~IsNone(out.pydantic) \/ ~IsNone(out.json_dict)) =>
                   \A raw \in {None, NotJson, RawJson(JList(<<ItemB>>))} :
                       get_recommendations(Return([out EXCEPT !.raw = raw])) = recs
            /\ (IsNone(out.pydantic) /\ IsNone(out.json_dict) /\ ~IsNone(out.raw)) =>
                   IF IsNone(Val(out.raw).json)
                   THEN recs.kind = "raise" /\ recs.exc = "RuntimeError"
                   ELSE recs = parse_all(Val(Val(out.raw).json))

\* C29 witness: the pydantic channel held one item, json_dict a number and
\* raw a text that is no JSON; the item was returned
C29_Witness ==
    /\ pc = "ran"
    /\ run.crew = "service"
    /\ run.output = Some(CrewOutput(Some(<<parse_obj(ItemA).value>>), Some(JNum), NotJson))
    /\ Val(run.result).value = [msg |-> "cards", cards |-> <<parse_obj(ItemA).value>>]

\* C30: recommend_cb with an empty or whitespace-only query returns the
\* 'Please enter a request first' message without invoking
\* get_recommendations: no crew task runs and no catalog request is made.
C30_BlankQueryIsAnsweredAtOnce ==
    (run.crew \in {"ui", "service"} /\ Len(Strip(run.query)) = 0) =>
        /\ run.crew = "ui"
        /\ pc = "ran"
        /\ run.ran = <<>>
        /\ IsNone(run.output)
        /\ run.result = Some(Return([msg |-> "Please enter a request first",
                                     cards |-> <<>>]))
        /\ calls = <<>>
        /\ nag.log = <<>>

\* C30 witness: the query of one blank was answered with the message
C30_Witness ==
    /\ pc = "ran"
    /\ run.crew = "ui"
    /\ run.query = <<" ">>
    /\ Val(run.result).value.msg = "Please enter a request first"

====
